---- MODULE Spec2Model ----
(***************************************************************************)
(* hhuTOSr kernel core: region arithmetic and memory-map scanning          *)
(* (os/kernel/src/boot.rs), the SYSCALL trampoline                         *)
(* (os/kernel/src/syscall/syscall_dispatcher.rs) and the thread / context  *)
(* switch primitives (os/kernel/src/thread/thread.rs).                     *)
(*                                                                         *)
(* Physical frames are represented by their start address (a multiple of   *)
(* PAGE_SIZE), as x86_64::PhysFrame does; a PhysFrameRange is the record   *)
(* [start, end] of two frames and denotes the half-open set of frames      *)
(* start <= f < end (empty when start >= end).                             *)
(***************************************************************************)
EXTENDS Integers, Sequences, FiniteSets, TLC

VARIABLES
    cut_pc,        \* "input" | "done": position of the cut_region caller
    cut_regions,   \* argument `regions` of cut_region
    cut_reserved,  \* argument `reserved_region` of cut_region
    cut_result,    \* the returned new_regions
    cut_other,     \* a second reserved region, cut after (or before) the first
    cut_swapped,   \* what the two cuts return when made in the other order
    cut_once,      \* the list between the two cuts
    boot_pc,       \* position inside start(): "scan", "gdt", "cut_null", ...
    map_source,    \* which memory map the bootloader provides
    memory_map,    \* the entries of that map, in map order
    kernel_image,  \* linker symbols [start, data_end] of the kernel image
    heap_region,   \* start()'s local heap_region
    heap_initialized,  \* allocator().init has run
    memory_regions,  \* bootloader_memory_regions / available_memory_regions
    frame_allocator,   \* the list handed to memory::physical::init
    panic_message, \* message of the panic that stopped the boot, or ""
    bring_up,      \* the bring-up steps start() has carried out, in order
    lifecycle,     \* per thread: the steps of its life so far, in order
    user_entry,    \* per thread: the user state at its latest SYSCALL
    cpu_pc,        \* the code the processor executes: a label of the kernel or user code
    regs,          \* the general-purpose registers except rsp
    rsp,           \* the stack pointer
    rflags,        \* RFLAGS
    cpl,           \* current privilege level, 0 or 3
    segments,      \* the selectors in cs and ss
    mem,           \* memory: the words written so far, by address
    tss_rsp0,      \* TSS.privilege_stack_table[0]
    cr3,           \* the page-table root in CR3
    current,       \* scheduler().current_thread(), 0 before the scheduler starts
    running,       \* the thread whose stack rsp was last loaded from, 0 for the boot stack
    threads,       \* the threads created so far
    thread_kind,   \* "kernel" | "user" (is_kernel_thread), "none" before creation
    kernel_stack_base, \* kernel_stack.as_ptr() of each thread
    switch_entry,  \* registers, rsp and rflags of each thread when it entered thread_switch
    sys_entry,     \* registers, rsp, return rip and rflags right after SYSCALL
    handler_call,  \* the call through SYSCALL_TABLE: id, parameters, result
    syscall_number \* <<id>> once syscall_abort has read it, else <<>>

cutVars == <<cut_pc, cut_regions, cut_reserved, cut_result, cut_other, cut_swapped, cut_once>>

bootVars == <<boot_pc, map_source, memory_map, kernel_image, heap_region,
              heap_initialized, memory_regions, frame_allocator, panic_message>>

threadVars == <<tss_rsp0, cr3, current, running, threads, thread_kind, kernel_stack_base,
                switch_entry>>

syscallVars == <<sys_entry, handler_call, syscall_number>>

lifeVars == <<lifecycle, user_entry>>

cpuVars == <<cpu_pc, regs, rsp, rflags, cpl, segments, mem, threadVars, syscallVars, lifeVars>>

bringUpVars == <<bring_up>>

vars == <<cutVars, bootVars, bringUpVars, cpuVars>>

\* What the steps of one component leave alone.
outsideCut == <<bootVars, bringUpVars, cpuVars>>

outsideBoot == <<cutVars, bringUpVars, cpuVars>>

outsideCpu == <<cutVars, bootVars, bringUpVars>>

\* The bring-up steps of start() change boot_pc, panic_message and bring_up.
outsideBringUp == <<cutVars, cpuVars, map_source, memory_map, kernel_image, heap_region,
                    heap_initialized, memory_regions, frame_allocator>>

(***************************************************************************)
(* Constants of the program and bounds of the model                        *)
(***************************************************************************)
PAGE_SIZE == 4096

\* Highest frame number of the region-arithmetic inputs.
MaxFrame == 4

\* Longest region list handed to cut_region.
MaxRegions == 2

(***************************************************************************)
(* Frame ranges                                                            *)
(***************************************************************************)
Min(a, b) == IF a <= b THEN a ELSE b

Max(a, b) == IF a >= b THEN a ELSE b

PhysFrameRange(s, e) == [start |-> s, end |-> e]

\* The frames (start addresses) inside a range.
FramesOf(r) == {f * PAGE_SIZE : f \in {g \in 0..MaxFrame : r.start <= g * PAGE_SIZE /\ g * PAGE_SIZE < r.end}}

\* Two ranges share a frame.
Overlap(a, b) == Max(a.start, b.start) < Min(a.end, b.end)

PairwiseDisjoint(rs) == \A i, j \in 1..Len(rs) : i # j => ~Overlap(rs[i], rs[j])

RECURSIVE UnionFrames(_)
UnionFrames(rs) == IF rs = <<>> THEN {} ELSE FramesOf(Head(rs)) \cup UnionFrames(Tail(rs))

(***************************************************************************)
(* cut_region: boot.rs 397-420                                             *)
(***************************************************************************)
\* A slip in the "starts below and ends above" branch: the part above the
\* reserved region is not pushed.
CutOneLosesUpperPart(region, reserved) ==
    IF region.start < reserved.start /\ region.end >= reserved.start
    THEN <<PhysFrameRange(region.start, reserved.start)>>
    ELSE IF region.start <= reserved.end /\ region.end >= reserved.start
         THEN IF region.end <= reserved.end
              THEN <<>>
              ELSE <<PhysFrameRange(reserved.end, region.end)>>
         ELSE <<region>>

\* A slip in the second test: a region that starts exactly where the reserved
\* region starts is taken not to interfere with it.
CutOneMissesEqualStart(region, reserved) ==
    IF region.start < reserved.start /\ region.end >= reserved.start
    THEN IF region.end <= reserved.end
         THEN <<PhysFrameRange(region.start, reserved.start)>>
         ELSE <<PhysFrameRange(region.start, reserved.start),
                PhysFrameRange(reserved.end, region.end)>>
    ELSE IF region.start > reserved.start /\ region.start <= reserved.end
            /\ region.end >= reserved.start
         THEN IF region.end <= reserved.end
              THEN <<>>
              ELSE <<PhysFrameRange(reserved.end, region.end)>>
         ELSE <<region>>

\* A slip in the "starts below and ends above" branch: the part above the
\* reserved region is pushed from the start of the reserved region instead
\* of from its end.
CutOneUpperFromReservedStart(region, reserved) ==
    IF region.start < reserved.start /\ region.end >= reserved.start
    THEN IF region.end <= reserved.end
         THEN <<PhysFrameRange(region.start, reserved.start)>>
         ELSE <<PhysFrameRange(region.start, reserved.start),
                PhysFrameRange(reserved.start, region.end)>>
    ELSE IF region.start <= reserved.end /\ region.end >= reserved.start
         THEN IF region.end <= reserved.end
              THEN <<>>
              ELSE <<PhysFrameRange(reserved.end, region.end)>>
         ELSE <<region>>

\* A slip in the "starts below and ends above" branch: the part below the
\* reserved region is pushed up to the end of the reserved region instead of
\* up to its start.
CutOneLowerToReservedEnd(region, reserved) ==
    IF region.start < reserved.start /\ region.end >= reserved.start
    THEN IF region.end <= reserved.end
         THEN <<PhysFrameRange(region.start, reserved.start)>>
         ELSE <<PhysFrameRange(region.start, reserved.end),
                PhysFrameRange(reserved.end, region.end)>>
    ELSE IF region.start <= reserved.end /\ region.end >= reserved.start
         THEN IF region.end <= reserved.end
              THEN <<>>
              ELSE <<PhysFrameRange(reserved.end, region.end)>>
         ELSE <<region>>

\* The body of the loop: what one region contributes to new_regions.
CutOne(region, reserved) ==
    IF region.start < reserved.start /\ region.end >= reserved.start
    THEN IF region.end <= reserved.end
         THEN <<PhysFrameRange(region.start, reserved.start)>>
         ELSE <<PhysFrameRange(region.start, reserved.start),
                PhysFrameRange(reserved.end, region.end)>>
    ELSE IF region.start <= reserved.end /\ region.end >= reserved.start
         THEN IF region.end <= reserved.end
              THEN <<>>
              ELSE <<PhysFrameRange(reserved.end, region.end)>>
         ELSE <<region>>

RECURSIVE cut_region(_, _)
cut_region(regions, reserved) ==
    IF regions = <<>>
    THEN <<>>
    ELSE CutOne(Head(regions), reserved) \o cut_region(Tail(regions), reserved)

(***************************************************************************)
(* Region arithmetic on its own: cut_region applied to any disjoint list   *)
(***************************************************************************)
CutFrameAddrs == {f * PAGE_SIZE : f \in 0..MaxFrame}

\* Every PhysFrameRange value over the frames, the inverted ones (start > end,
\* which the native scanner produces for an entry smaller than a frame)
\* included.
CutRanges == [start : CutFrameAddrs, end : CutFrameAddrs]

\* A reserved region is built start-first with end >= start (boot.rs 131,
\* 305-315, 327-328).
CutReservedRanges == {r \in CutRanges : r.start <= r.end}

CutRegionLists == UNION {[1..n -> CutRanges] : n \in 0..MaxRegions}

CutCall ==
    /\ cut_pc = "input"
    /\ cut_result' = cut_region(cut_regions, cut_reserved)
    /\ cut_pc' = "done"
    /\ UNCHANGED <<cut_regions, cut_reserved, cut_other, cut_swapped, cut_once>>
    /\ UNCHANGED outsideCut

\* Two reserved regions cut out one after the other, as start() does with
\* the null, kernel and heap regions (boot.rs 132-134), in both orders.
CutTwice ==
    /\ cut_pc = "input"
    /\ cut_once' = cut_region(cut_regions, cut_reserved)
    /\ cut_result' = cut_region(cut_once', cut_other)
    /\ cut_swapped' = cut_region(cut_region(cut_regions, cut_other), cut_reserved)
    /\ cut_pc' = "done"
    /\ UNCHANGED <<cut_regions, cut_reserved, cut_other>>
    /\ UNCHANGED outsideCut

(***************************************************************************)
(* Memory-map scanning: boot.rs 305-395                                    *)
(***************************************************************************)
INIT_HEAP_PAGES == 1024

\* PhysAddr::align_up / align_down to PAGE_SIZE.
AlignUp(addr) == ((addr + PAGE_SIZE - 1) \div PAGE_SIZE) * PAGE_SIZE

AlignDown(addr) == (addr \div PAGE_SIZE) * PAGE_SIZE

\* PhysFrame::from_start_address(addr) is Ok only for an aligned address.
IsFrameStart(addr) == addr % PAGE_SIZE = 0

\* PhysFrame + n.
FrameAdd(frame, n) == frame + n * PAGE_SIZE

kernel_image_region(image) == PhysFrameRange(image.start, AlignUp(image.data_end))

NoHeapMessage == "Failed to find memory region usable for kernel heap!"

UnwrapMessage == "called Result::unwrap() on an Err value"

ScanPanic(message) == [panic |-> message, heap |-> PhysFrameRange(0, 0), regions |-> <<>>]

ScanOk(heap, found) == [panic |-> "", heap |-> heap, regions |-> found]

\* Iterator::min_by: the index of the first of the smallest keys.
MinByIndex(keys) ==
    CHOOSE i \in 1..Len(keys) :
        /\ \A j \in 1..Len(keys) : keys[i] <= keys[j]
        /\ \A j \in 1..(i - 1) : keys[j] > keys[i]

EfiUsable(ty) ==
    \/ ty = "CONVENTIONAL"
    \/ ty = "LOADER_CODE"
    \/ ty = "LOADER_DATA"
    \/ ty = "BOOT_SERVICES_CODE"
    \/ ty = "BOOT_SERVICES_DATA"

EfiHeapCandidate(area, kernel_region) ==
    /\ EfiUsable(area.ty)
    /\ area.page_count >= INIT_HEAP_PAGES
    /\ area.phys_start >= kernel_region.end

EfiRegion(area) ==
    LET start == AlignUp(area.phys_start)
    IN  PhysFrameRange(start, FrameAdd(start, area.page_count))

\* scan_efi_memory_map: the live UEFI map obtained by exiting boot services.
scan_efi_memory_map(map, image) ==
    LET kernel_region == kernel_image_region(image)
        candidates == SelectSeq(map, LAMBDA area : EfiHeapCandidate(area, kernel_region))
        usable == SelectSeq(map, LAMBDA area : EfiUsable(area.ty))
    IN  IF candidates = <<>>
        THEN ScanPanic(NoHeapMessage)
        ELSE LET heap_area == candidates[MinByIndex([i \in 1..Len(candidates) |-> candidates[i].phys_start])]
             IN  IF ~IsFrameStart(heap_area.phys_start)
                 THEN ScanPanic(UnwrapMessage)
                 ELSE ScanOk(PhysFrameRange(heap_area.phys_start,
                                            FrameAdd(heap_area.phys_start, INIT_HEAP_PAGES)),
                             [i \in 1..Len(usable) |-> EfiRegion(usable[i])])

\* scan_efi_multiboot2_memory_map: the UEFI map snapshot of the multiboot2 info.
scan_efi_multiboot2_memory_map(map, image) ==
    LET kernel_region == kernel_image_region(image)
        candidates == SelectSeq(map, LAMBDA area : EfiHeapCandidate(area, kernel_region))
        usable == SelectSeq(map, LAMBDA area : EfiUsable(area.ty))
    IN  IF candidates = <<>>
        THEN ScanPanic(NoHeapMessage)
        ELSE LET heap_area == candidates[MinByIndex([i \in 1..Len(candidates) |-> candidates[i].phys_start])]
             IN  IF ~IsFrameStart(heap_area.phys_start)
                 THEN ScanPanic(UnwrapMessage)
                 ELSE ScanOk(PhysFrameRange(heap_area.phys_start,
                                            FrameAdd(heap_area.phys_start, INIT_HEAP_PAGES)),
                             [i \in 1..Len(usable) |-> EfiRegion(usable[i])])

\* MemoryArea::end_address.
Mb2EndAddress(area) == area.start + area.size

\* The heap filter without the test against the kernel image end.
Mb2HeapCandidateIgnoresKernel(area, kernel_region) ==
    /\ area.typ = "Available"
    /\ area.size \div PAGE_SIZE >= INIT_HEAP_PAGES

Mb2HeapCandidate(area, kernel_region) ==
    /\ area.typ = "Available"
    /\ area.size \div PAGE_SIZE >= INIT_HEAP_PAGES
    /\ area.start >= kernel_region.end

\* The rounding turned outward: start down, end up.
Mb2RegionRoundsOutward(area) ==
    PhysFrameRange(AlignDown(area.start), AlignUp(Mb2EndAddress(area)))

\* The range pushed for an Available entry (boot.rs 387-392).
Mb2Region(area) ==
    PhysFrameRange(AlignUp(area.start), AlignDown(Mb2EndAddress(area)))

\* scan_multiboot2_memory_map: the native multiboot2 map.
scan_multiboot2_memory_map(map, image) ==
    LET kernel_region == kernel_image_region(image)
        candidates == SelectSeq(map, LAMBDA area : Mb2HeapCandidate(area, kernel_region))
        usable == SelectSeq(map, LAMBDA area : area.typ = "Available")
    IN  IF candidates = <<>>
        THEN ScanPanic(NoHeapMessage)
        ELSE LET heap_area == candidates[MinByIndex([i \in 1..Len(candidates) |-> candidates[i].start])]
                 heap_start == AlignUp(heap_area.start)
             IN  ScanOk(PhysFrameRange(heap_start, FrameAdd(heap_start, INIT_HEAP_PAGES)),
                        [i \in 1..Len(usable) |-> Mb2Region(usable[i])])

(***************************************************************************)
(* The memory maps and kernel images the boot is run on                    *)
(***************************************************************************)
\* Longest memory map.
MaxEntries == 2

\* Kernel images: loaded at 1 MiB, ending on or inside a frame.
KernelImages ==
    {[start |-> 256 * PAGE_SIZE, data_end |-> 512 * PAGE_SIZE],
     [start |-> 256 * PAGE_SIZE, data_end |-> 512 * PAGE_SIZE - 2048]}

\* UEFI descriptors: PhysicalStart is 4 KiB aligned, the size is in pages.
EfiAreas ==
    [ty : {"CONVENTIONAL"},
     phys_start : {0, 256 * PAGE_SIZE, 512 * PAGE_SIZE, 1536 * PAGE_SIZE, 1537 * PAGE_SIZE},
     page_count : {1, 1023, 1024, 1025, 65024, 65280}]
    \cup
    [ty : {"LOADER_CODE", "LOADER_DATA", "BOOT_SERVICES_CODE", "BOOT_SERVICES_DATA",
           "RESERVED", "ACPI_RECLAIM"},
     phys_start : {512 * PAGE_SIZE, 1536 * PAGE_SIZE},
     page_count : {1024}]

\* Native multiboot2 entries: byte-granular start and size.
Mb2Areas ==
    [typ : {"Available"},
     start : {0, 256 * PAGE_SIZE, 512 * PAGE_SIZE, 512 * PAGE_SIZE + 2048, 1536 * PAGE_SIZE},
     size : {1024, 1023 * PAGE_SIZE, 1024 * PAGE_SIZE, 1024 * PAGE_SIZE + 2048,
             65024 * PAGE_SIZE, 65280 * PAGE_SIZE}]
    \cup
    [typ : {"Reserved"},
     start : {0, 512 * PAGE_SIZE},
     size : {256 * PAGE_SIZE, 1024 * PAGE_SIZE}]

\* The bytes [start, end) an entry of either kind describes.
AreaBytes(area) ==
    IF "typ" \in DOMAIN area
    THEN PhysFrameRange(area.start, area.start + area.size)
    ELSE PhysFrameRange(area.phys_start, area.phys_start + area.page_count * PAGE_SIZE)

\* Firmware maps describe every byte at most once.
MapsOver(areas) ==
    {m \in UNION {[1..n -> areas] : n \in 0..MaxEntries} :
        \A i, j \in 1..Len(m) : i # j => ~Overlap(AreaBytes(m[i]), AreaBytes(m[j]))}

(***************************************************************************)
(* start(): boot.rs 84-138                                                 *)
(***************************************************************************)
\* The effect of the return (or panic) of a scanner on the state of start().
ScanReturns(scanned) ==
    IF scanned.panic # ""
    THEN /\ boot_pc' = "panic"
         /\ panic_message' = scanned.panic
         /\ UNCHANGED <<heap_region, heap_initialized, memory_regions>>
    ELSE /\ boot_pc' = "gdt"
         /\ heap_region' = scanned.heap
         /\ heap_initialized' = TRUE
         /\ memory_regions' = scanned.regions
         /\ UNCHANGED panic_message

\* boot.rs 89-107: boot services not exited, the map comes from exiting them.
BootScanEfi ==
    /\ boot_pc = "scan"
    /\ map_source = "efi_boot_services"
    /\ ScanReturns(scan_efi_memory_map(memory_map, kernel_image))
    /\ UNCHANGED <<map_source, memory_map, kernel_image, frame_allocator>>
    /\ UNCHANGED outsideBoot

\* boot.rs 110-113
BootScanEfiMultiboot2 ==
    /\ boot_pc = "scan"
    /\ map_source = "efi_memory_map_tag"
    /\ ScanReturns(scan_efi_multiboot2_memory_map(memory_map, kernel_image))
    /\ UNCHANGED <<map_source, memory_map, kernel_image, frame_allocator>>
    /\ UNCHANGED outsideBoot

\* boot.rs 114-117
BootScanMultiboot2 ==
    /\ boot_pc = "scan"
    /\ map_source = "memory_map_tag"
    /\ ScanReturns(scan_multiboot2_memory_map(memory_map, kernel_image))
    /\ UNCHANGED <<map_source, memory_map, kernel_image, frame_allocator>>
    /\ UNCHANGED outsideBoot

\* boot.rs 118-120
BootNoMemoryInformation ==
    /\ boot_pc = "scan"
    /\ map_source = "none"
    /\ boot_pc' = "panic"
    /\ panic_message' = "No memory information available!"
    /\ UNCHANGED <<map_source, memory_map, kernel_image, heap_region,
                   heap_initialized, memory_regions, frame_allocator>>
    /\ UNCHANGED outsideBoot

\* boot.rs 123-126
BootInitGdt ==
    /\ boot_pc = "gdt"
    /\ boot_pc' = "cut_null"
    /\ UNCHANGED <<map_source, memory_map, kernel_image, heap_region,
                   heap_initialized, memory_regions, frame_allocator, panic_message>>
    /\ UNCHANGED outsideBoot

null_region == PhysFrameRange(0, PAGE_SIZE)

\* boot.rs 131-132
BootCutNull ==
    /\ boot_pc = "cut_null"
    /\ memory_regions' = cut_region(memory_regions, null_region)
    /\ boot_pc' = "cut_kernel"
    /\ UNCHANGED <<map_source, memory_map, kernel_image, heap_region,
                   heap_initialized, frame_allocator, panic_message>>
    /\ UNCHANGED outsideBoot

\* boot.rs 133
BootCutKernel ==
    /\ boot_pc = "cut_kernel"
    /\ memory_regions' = cut_region(memory_regions, kernel_image_region(kernel_image))
    /\ boot_pc' = "cut_heap"
    /\ UNCHANGED <<map_source, memory_map, kernel_image, heap_region,
                   heap_initialized, frame_allocator, panic_message>>
    /\ UNCHANGED outsideBoot

\* boot.rs 134
BootCutHeap ==
    /\ boot_pc = "cut_heap"
    /\ memory_regions' = cut_region(memory_regions, heap_region)
    /\ boot_pc' = "physical_init"
    /\ UNCHANGED <<map_source, memory_map, kernel_image, heap_region,
                   heap_initialized, frame_allocator, panic_message>>
    /\ UNCHANGED outsideBoot

\* boot.rs 136-138
BootPhysicalInit ==
    /\ boot_pc = "physical_init"
    /\ frame_allocator' = memory_regions
    /\ boot_pc' = "paging"
    /\ UNCHANGED <<map_source, memory_map, kernel_image, heap_region,
                   heap_initialized, memory_regions, panic_message>>
    /\ UNCHANGED outsideBoot

(***************************************************************************)
(* start(): bring-up of the devices, boot.rs 139-261                       *)
(***************************************************************************)
\* What the framebuffer tag of the multiboot2 information may be.
FramebufferTags == {"rgb", "missing", "unknown_type", "unaligned"}

\* Which RSDP tag the multiboot2 information carries.
RsdpTags == {"v2", "v1", "none"}

\* One bring-up step that cannot fail: it is recorded and start() goes on.
BringUpStep(at, step, then) ==
    /\ boot_pc = at
    /\ bring_up' = Append(bring_up, step)
    /\ boot_pc' = then
    /\ UNCHANGED panic_message
    /\ UNCHANGED outsideBringUp

\* A panic during bring-up.
BringUpPanic(message) ==
    /\ panic_message' = message
    /\ boot_pc' = "panic"
    /\ UNCHANGED bring_up
    /\ UNCHANGED outsideBringUp

\* boot.rs 139-142: create the kernel address space and load CR3.
BootPaging ==
    /\ boot_pc = "paging"
    /\ boot_pc' = "serial"
    /\ UNCHANGED <<panic_message, bring_up>>
    /\ UNCHANGED outsideBringUp

\* boot.rs 144-148: init_serial_port
BootSerial == BringUpStep("serial", "serial", "terminal")

\* boot.rs 150-160: the framebuffer tag is needed for the terminal.
BootTerminal(fb) ==
    /\ boot_pc = "terminal"
    /\ CASE fb = "missing" -> BringUpPanic("No framebuffer information provided by bootloader!")
         [] fb = "unknown_type" -> BringUpPanic("Unknown framebuffer type!")
         [] fb = "unaligned" -> BringUpPanic("Framebuffer address is not page aligned!")
         [] OTHER -> BringUpStep("terminal", "terminal", "acpi")

\* boot.rs 180-191: init_acpi_tables, from the RSDP tag.
BootAcpi(rsdp) ==
    /\ boot_pc = "acpi"
    /\ IF rsdp = "none"
       THEN BringUpPanic("ACPI not available!")
       ELSE BringUpStep("acpi", "acpi", "idt")

\* The step at the place of setup_idt enables interrupts instead of setting
\* up the IDT.
BootEnableInterruptsBeforeIdt == BringUpStep("idt", "interrupts", "syscall")

\* boot.rs 194-195: interrupt_dispatcher::setup_idt
BootSetupIdt == BringUpStep("idt", "idt", "syscall")

\* boot.rs 196-197: syscall_dispatcher::init
BootSyscallInit == BringUpStep("syscall", "syscall", "apic")

\* boot.rs 198: init_apic
BootInitApic == BringUpStep("apic", "apic", "timer")

\* boot.rs 200-206: the timer
BootTimer == BringUpStep("timer", "timer", "enable_interrupts")

\* boot.rs 208-210: interrupts::enable
BootEnableInterrupts == BringUpStep("enable_interrupts", "interrupts", "efi_runtime")

\* boot.rs 212-227: the EFI runtime services, if there are any.
BootEfiRuntime ==
    /\ boot_pc = "efi_runtime"
    /\ boot_pc' = "keyboard"
    /\ UNCHANGED <<panic_message, bring_up>>
    /\ UNCHANGED outsideBringUp

\* boot.rs 229-232: init_keyboard and the plugin of the PS/2 keyboard
BootKeyboard == BringUpStep("keyboard", "ps2", "serial_plugin")

\* boot.rs 234-237: serial port interrupts
BootSerialPlugin ==
    /\ boot_pc = "serial_plugin"
    /\ boot_pc' = "scheduler"
    /\ UNCHANGED <<panic_message, bring_up>>
    /\ UNCHANGED outsideBringUp

\* boot.rs 239-261: the shell thread is made ready and the scheduler starts.
BootStartScheduler ==
    /\ boot_pc = "scheduler"
    /\ boot_pc' = "scheduler_started"
    /\ UNCHANGED <<panic_message, bring_up>>
    /\ UNCHANGED outsideBringUp

NextBoot ==
    \/ BootScanEfi
    \/ BootScanEfiMultiboot2
    \/ BootScanMultiboot2
    \/ BootNoMemoryInformation
    \/ BootInitGdt
    \/ BootCutNull
    \/ BootCutKernel
    \/ BootCutHeap
    \/ BootPhysicalInit
    \/ BootPaging
    \/ BootSerial
    \/ \E fb \in FramebufferTags : BootTerminal(fb)
    \/ \E rsdp \in RsdpTags : BootAcpi(rsdp)
    \/ BootSetupIdt
    \/ BootSyscallInit
    \/ BootInitApic
    \/ BootTimer
    \/ BootEnableInterrupts
    \/ BootEfiRuntime
    \/ BootKeyboard
    \/ BootSerialPlugin
    \/ BootStartScheduler

(***************************************************************************)
(* The CPU: 64-bit words, registers, memory                                *)
(*                                                                         *)
(* A 64-bit value v is the pair <<hi, lo>> with v = hi * LimbBase + lo     *)
(* (two's complement, 0 <= lo < LimbBase): the model checker's integers    *)
(* are 32 bits wide, and the program uses 0x4000_0000_0000 (the user       *)
(* stack) as well as values with bit 63 set (a syscall id such as          *)
(* 0xFFFF_FFFF_FFFF_FFFF is <<-1, LimbBase - 1>>).                         *)
(***************************************************************************)
LimbBase == 4096 * 4096

WordOf(n) == <<n \div LimbBase, n % LimbBase>>

\* w + n for a small (possibly negative) n.
WordAdd(w, n) == <<w[1] + ((w[2] + n) \div LimbBase), (w[2] + n) % LimbBase>>

\* a >= b, both read as signed 64-bit values (jge after cmp a, b).
SignedGE(a, b) == a[1] > b[1] \/ (a[1] = b[1] /\ a[2] >= b[2])

\* a >= b, both read as unsigned 64-bit values.
UnsignedGE(a, b) == IF (a[1] < 0) = (b[1] < 0) THEN SignedGE(a, b) ELSE a[1] < 0

\* lo <= a < hi for addresses of the lower half of the address space.
InRange(a, lo, hi) == SignedGE(a, lo) /\ ~SignedGE(a, hi)

GeneralRegisters ==
    {"rax", "rbx", "rcx", "rdx", "rsi", "rdi", "rbp",
     "r8", "r9", "r10", "r11", "r12", "r13", "r14", "r15"}

\* Registers a C-ABI function may overwrite; rbx, rbp and r12-r15 survive a call.
CallerSaved == {"rax", "rcx", "rdx", "rsi", "rdi", "r8", "r9", "r10", "r11"}

\* RFLAGS.IF, bit 9.
InterruptFlag(flags) == (flags[2] \div 512) % 2 = 1

\* Memory is a map from the addresses written so far; the kernel heap is
\* identity-mapped and zero where nothing was written (the stack buffers are
\* filled with push(0), thread.rs 126-128).
Load(memory, addr) == IF addr \in DOMAIN memory THEN memory[addr] ELSE WordOf(0)

Store(memory, addr, value) == (addr :> value) @@ memory

\* The part of the processor state the instruction sequences work on.
Cpu(r, sp, flags, memory) == [regs |-> r, rsp |-> sp, rflags |-> flags, mem |-> memory]

Push(c, value) ==
    [c EXCEPT !.rsp = WordAdd(c.rsp, -8), !.mem = Store(c.mem, WordAdd(c.rsp, -8), value)]

PushReg(c, r) == Push(c, c.regs[r])

PopReg(c, r) == [c EXCEPT !.regs[r] = Load(c.mem, c.rsp), !.rsp = WordAdd(c.rsp, 8)]

MovReg(c, dst, src) == [c EXCEPT !.regs[dst] = c.regs[src]]

Pushf(c) == Push(c, c.rflags)

Popf(c) == [c EXCEPT !.rflags = Load(c.mem, c.rsp), !.rsp = WordAdd(c.rsp, 8)]

RECURSIVE PushRegs(_, _)
PushRegs(c, rs) == IF rs = <<>> THEN c ELSE PushRegs(PushReg(c, Head(rs)), Tail(rs))

RECURSIVE PopRegs(_, _)
PopRegs(c, rs) == IF rs = <<>> THEN c ELSE PopRegs(PopReg(c, Head(rs)), Tail(rs))

\* call f, f a C-ABI function that returns: the return address is written
\* below rsp, the caller-saved registers come back with values of the
\* callee (junk, and result in rax), rsp is as before the call.
CallReturned(c, return_address, result, junk) ==
    [c EXCEPT !.mem = Store(c.mem, WordAdd(c.rsp, -8), return_address),
              !.regs = [r \in GeneralRegisters |->
                           IF r = "rax" THEN result
                           ELSE IF r \in CallerSaved THEN junk
                           ELSE c.regs[r]]]

\* What a called function may leave in a caller-saved register.
JunkValues == {WordOf(47806), WordOf(-2)}

(***************************************************************************)
(* Code addresses                                                          *)
(***************************************************************************)
CodeLabels ==
    <<"kickoff_kernel_thread", "kickoff_user_thread", "switch_return",
      "thread_switch_after_tss", "syscall_after_get_rsp0", "syscall_after_disp",
      "syscall_disp_ret", "user_code", "sys_thread_switch_return", "entry">>

\* The kernel text is loaded at 1 MiB; the user code of the model lies in
\* the same image.
CodeAddr(label) ==
    LET i == CHOOSE k \in 1..Len(CodeLabels) : CodeLabels[k] = label
    IN  WordOf(256 * PAGE_SIZE + 64 * i)

\* Where a ret or an iretq to `addr` continues: a known label, or "fault"
\* for any other address (the sentinel 0x00DEAD00 among them).
LabelAt(addr) ==
    IF \E k \in 1..Len(CodeLabels) : CodeAddr(CodeLabels[k]) = addr
    THEN CodeLabels[CHOOSE k \in 1..Len(CodeLabels) : CodeAddr(CodeLabels[k]) = addr]
    ELSE "fault"

(***************************************************************************)
(* Thread: thread.rs 19-179                                                *)
(***************************************************************************)
STACK_SIZE_PAGES == 16

\* Number of threads the scheduler is given.
MaxThreads == 2

Threads == 1..MaxThreads

\* Vec::with_capacity((STACK_SIZE_PAGES * PAGE_SIZE) / 8)
StackCapacity == (STACK_SIZE_PAGES * PAGE_SIZE) \div 8

\* USER_STACK_ADDRESS = 0x400000000000
USER_STACK_ADDRESS == <<4096 * 1024, 0>>

\* The sentinel return address 0x00DEAD00.
DummyReturnAddress == WordOf(14593280)

\* rflags of a fresh frame: 0x202, interrupts enabled.
InitialRflags == WordOf(514)

\* SegmentSelector::new(index, Ring3).0
UserSelector(index) == WordOf(index * 8 + 3)

\* Address of the Thread struct field old_rsp0 (the struct is on the heap).
OldRsp0Field(t) == WordOf(528 * PAGE_SIZE + 256 * t)

\* Address of slot i of a stack buffer at `base`.
SlotAddr(base, i) == WordAdd(base, 8 * i)

\* as_ptr().offset(n) on a *const u64 advances by n elements of 8 bytes.
PtrOffset(base, n) == WordAdd(base, 8 * n)

\* The address of the top slot, base + 8 * (capacity - 1).
KernelStackTop(base) == SlotAddr(base, StackCapacity - 1)

\* Thread::kernel_stack_addr, thread.rs 118-120
kernel_stack_addr(base) == PtrOffset(base, (StackCapacity - 1) * 8)

\* The values prepare_kernel_stack stores, from slot capacity-1 downwards.
InitialFrame ==
    <<DummyReturnAddress, CodeAddr("kickoff_kernel_thread"), InitialRflags,
      WordOf(0), WordOf(0), WordOf(0), WordOf(0), WordOf(0), WordOf(0), WordOf(0), WordOf(0),
      WordOf(0), WordOf(0), WordOf(0), WordOf(0),
      WordOf(0), WordOf(0), WordOf(0)>>

RECURSIVE StoreFrame(_, _, _, _)
\* kernel_stack[capacity - k] = frame[k], frame[k + 1] below it, ...
StoreFrame(memory, base, frame, k) ==
    IF k > Len(frame)
    THEN memory
    ELSE StoreFrame(Store(memory, SlotAddr(base, StackCapacity - k), frame[k]), base, frame, k + 1)

\* prepare_kernel_stack with old_rsp0 one slot too high, at slot capacity-17.
prepare_kernel_stack_rdi_slot(memory, t, base) ==
    Store(StoreFrame(memory, base, InitialFrame, 1),
          OldRsp0Field(t), SlotAddr(base, StackCapacity - 17))

\* prepare_kernel_stack, thread.rs 122-153: the memory after it ran.
prepare_kernel_stack(memory, t, base) ==
    Store(StoreFrame(memory, base, InitialFrame, 1),
          OldRsp0Field(t), SlotAddr(base, StackCapacity - 18))

\* thread_kernel_start and the second half of thread_switch pop in this order.
RestoreOrder ==
    <<"rbp", "rdi", "rsi", "rdx", "rcx", "rbx", "rax",
      "r15", "r14", "r13", "r12", "r11", "r10", "r9", "r8">>

\* The save order with rsi and rdi exchanged.
SaveOrderSwapped ==
    <<"r8", "r9", "r10", "r11", "r12", "r13", "r14", "r15",
      "rax", "rbx", "rcx", "rdx", "rdi", "rsi", "rbp">>

\* thread_switch pushes in this order, after pushf (thread.rs 220-235).
SaveOrder ==
    <<"r8", "r9", "r10", "r11", "r12", "r13", "r14", "r15",
      "rax", "rbx", "rcx", "rdx", "rsi", "rdi", "rbp">>

\* The page-table root of the address space of a thread: every kernel thread
\* shares the kernel address space, a user thread has one of its own.
PageTableRoot(kinds, t) ==
    IF kinds[t] = "kernel" THEN WordOf(1537 * PAGE_SIZE) ELSE WordOf((1537 + t) * PAGE_SIZE)

\* Paging.  The kernel is identity-mapped in every address space; the user
\* stack pages at USER_STACK_ADDRESS are mapped in each address space onto
\* frames of its own (new_user_thread, thread.rs 48-52).  Translate gives
\* the place in `mem` that the address a denotes under the page-table root.
Translate(root, a) ==
    IF SignedGE(a, USER_STACK_ADDRESS) THEN <<a[1] + (root[2] \div PAGE_SIZE), a[2]>> ELSE a

\* The address that denotes the place p of `mem` under the page-table root.
Untranslate(root, p) ==
    IF SignedGE(p, USER_STACK_ADDRESS) THEN <<p[1] - (root[2] \div PAGE_SIZE), p[2]>> ELSE p

\* Where the allocator may have put the kernel stack buffers: one after the
\* other, or with other heap objects in between.
StackLayouts ==
    {[t \in Threads |-> WordOf(768 * PAGE_SIZE + (t - 1) * 8 * StackCapacity)],
     [t \in Threads |-> WordOf(768 * PAGE_SIZE + 64 + (t - 1) * 24 * StackCapacity)]}

\* Seeds of the register values a running thread computes.
Seeds == {1, 2}

\* Distinct values for the registers of thread t, by seed.
RegisterFile(t, seed) ==
    [r \in GeneralRegisters |->
        WordOf(1000 * t + 100 * seed
               + (CHOOSE k \in 1..15 : RestoreOrder[k] = r))]

ZeroRegisters == [r \in GeneralRegisters |-> WordOf(0)]

\* rflags values of code that runs with interrupts enabled: IF and the
\* reserved bit 1, with or without ZF and PF.
EnabledFlags == {WordOf(514), WordOf(582)}

NoSnapshot == [regs |-> ZeroRegisters, rsp |-> WordOf(0), rflags |-> WordOf(0), valid |-> FALSE]

\* The step `step` of thread t's life is recorded.
Logged(t, step) == [lifecycle EXCEPT ![t] = Append(@, step)]

\* Thread::new_kernel_thread, thread.rs 32-44
NewKernelThread(t) ==
    /\ cpu_pc \in {"boot", "entry"}
    /\ t \notin threads
    /\ threads' = threads \cup {t}
    /\ thread_kind' = [thread_kind EXCEPT ![t] = "kernel"]
    /\ mem' = prepare_kernel_stack(mem, t, kernel_stack_base[t])
    /\ UNCHANGED <<cpu_pc, regs, rsp, rflags, cpl, segments, tss_rsp0, cr3, current, running,
                   kernel_stack_base, switch_entry, syscallVars>>
    /\ lifecycle' = Logged(t, "created")
    /\ UNCHANGED user_entry
    /\ UNCHANGED outsideCpu

\* Thread::new_user_thread, thread.rs 47-65
NewUserThread(t) ==
    /\ cpu_pc \in {"boot", "entry"}
    /\ t \notin threads
    /\ threads' = threads \cup {t}
    /\ thread_kind' = [thread_kind EXCEPT ![t] = "user"]
    /\ mem' = prepare_kernel_stack(mem, t, kernel_stack_base[t])
    /\ UNCHANGED <<cpu_pc, regs, rsp, rflags, cpl, segments, tss_rsp0, cr3, current, running,
                   kernel_stack_base, switch_entry, syscallVars>>
    /\ lifecycle' = Logged(t, "created")
    /\ UNCHANGED user_entry
    /\ UNCHANGED outsideCpu

\* Thread::start_first, thread.rs 97-99: the scheduler launches its first
\* thread, which it has made the current one.
StartFirst(t) ==
    /\ cpu_pc = "boot"
    /\ t \in threads
    /\ current' = t
    /\ regs' = [regs EXCEPT !["rdi"] = Load(mem, OldRsp0Field(t))]
    /\ cpu_pc' = "thread_kernel_start"
    /\ UNCHANGED <<rsp, rflags, cpl, segments, mem, tss_rsp0, cr3, running, threads,
                   thread_kind, kernel_stack_base, switch_entry, syscallVars>>
    /\ UNCHANGED lifeVars
    /\ UNCHANGED outsideCpu

\* thread_kernel_start, thread.rs 184: mov rsp, rdi
ThreadKernelStartLoad ==
    /\ cpu_pc = "thread_kernel_start"
    /\ rsp' = regs["rdi"]
    /\ running' = current
    /\ cpu_pc' = "thread_kernel_start_pop"
    /\ UNCHANGED <<regs, rflags, cpl, segments, mem, tss_rsp0, cr3, current, threads,
                   thread_kind, kernel_stack_base, switch_entry, syscallVars>>
    /\ UNCHANGED lifeVars
    /\ UNCHANGED outsideCpu

\* thread_kernel_start, thread.rs 185-201: the pops, popf and ret
ThreadKernelStartRestore ==
    /\ cpu_pc = "thread_kernel_start_pop"
    /\ LET c == Popf(PopRegs(Cpu(regs, rsp, rflags, mem), RestoreOrder))
       IN  /\ regs' = c.regs
           /\ rflags' = c.rflags
           /\ rsp' = WordAdd(c.rsp, 8)
           /\ cpu_pc' = LabelAt(Load(mem, c.rsp))
    /\ UNCHANGED <<cpl, segments, mem, tss_rsp0, cr3, current, running, threads,
                   thread_kind, kernel_stack_base, switch_entry, syscallVars>>
    /\ UNCHANGED lifeVars
    /\ UNCHANGED outsideCpu

\* kickoff_kernel_thread, thread.rs 68-74: the thread is the scheduler's
\* current thread; its kernel_stack_addr() goes into the TSS.
KickoffKernelThread ==
    /\ cpu_pc = "kickoff_kernel_thread"
    /\ tss_rsp0' = kernel_stack_addr(kernel_stack_base[current])
    /\ cpu_pc' = "kickoff_dispatch"
    /\ UNCHANGED <<regs, rsp, rflags, cpl, segments, mem, cr3, current, running, threads,
                   thread_kind, kernel_stack_base, switch_entry, syscallVars>>
    /\ lifecycle' = Logged(current, "kickoff")
    /\ UNCHANGED user_entry
    /\ UNCHANGED outsideCpu

\* kickoff_kernel_thread, thread.rs 76-77: a kernel thread calls its entry.
KickoffCallEntry ==
    /\ cpu_pc = "kickoff_dispatch"
    /\ thread_kind[current] = "kernel"
    /\ cpu_pc' = "entry"
    /\ UNCHANGED <<regs, rsp, rflags, cpl, segments, mem, tss_rsp0, cr3, current, running,
                   threads, thread_kind, kernel_stack_base, switch_entry, syscallVars>>
    /\ lifecycle' = Logged(current, "entry")
    /\ UNCHANGED user_entry
    /\ UNCHANGED outsideCpu

\* The frame with the two selectors exchanged: ss in the cs slot and cs in
\* the ss slot.
UserModeFrameSelectorsSwapped ==
    <<DummyReturnAddress, UserSelector(4), SlotAddr(USER_STACK_ADDRESS, StackCapacity - 1),
      InitialRflags, UserSelector(3), CodeAddr("kickoff_user_thread"), WordOf(0)>>

\* The frame with the rip slot holding kickoff_kernel_thread instead of
\* kickoff_user_thread.
UserModeFrameReentersKickoff ==
    <<DummyReturnAddress, UserSelector(3), SlotAddr(USER_STACK_ADDRESS, StackCapacity - 1),
      InitialRflags, UserSelector(4), CodeAddr("kickoff_kernel_thread"), WordOf(0)>>

\* The iretq frame of switch_to_user_mode, from slot capacity-1 downwards
\* (thread.rs 164-173).
UserModeFrame ==
    <<DummyReturnAddress, UserSelector(3), SlotAddr(USER_STACK_ADDRESS, StackCapacity - 1),
      InitialRflags, UserSelector(4), CodeAddr("kickoff_user_thread"), WordOf(0)>>

\* switch_to_user_mode, thread.rs 155-177
KickoffSwitchToUserMode ==
    /\ cpu_pc = "kickoff_dispatch"
    /\ thread_kind[current] = "user"
    /\ LET base == kernel_stack_base[current]
           new_rsp0 == SlotAddr(base, StackCapacity - 7)
       IN  /\ mem' = Store(StoreFrame(mem, base, UserModeFrame, 1), OldRsp0Field(current), new_rsp0)
           /\ regs' = [regs EXCEPT !["rdi"] = new_rsp0]
    /\ cpu_pc' = "thread_user_start"
    /\ UNCHANGED <<rsp, rflags, cpl, segments, tss_rsp0, cr3, current, running, threads,
                   thread_kind, kernel_stack_base, switch_entry, syscallVars>>
    /\ UNCHANGED lifeVars
    /\ UNCHANGED outsideCpu

\* thread_user_start, thread.rs 207-214: mov rsp, rdi; pop rdi; iretq
ThreadUserStart ==
    /\ cpu_pc = "thread_user_start"
    /\ LET c == PopReg([Cpu(regs, rsp, rflags, mem) EXCEPT !.rsp = regs["rdi"]], "rdi")
           frame == [i \in 0..4 |-> Load(mem, WordAdd(c.rsp, 8 * i))]
       IN  /\ regs' = c.regs
           /\ cpu_pc' = LabelAt(frame[0])
           /\ segments' = [cs |-> frame[1], ss |-> frame[4]]
           /\ cpl' = frame[1][2] % 4
           /\ rflags' = frame[2]
           /\ rsp' = frame[3]
    /\ UNCHANGED <<mem, tss_rsp0, cr3, current, running, threads, thread_kind,
                   kernel_stack_base, switch_entry, syscallVars>>
    /\ lifecycle' = Logged(current, "iretq")
    /\ UNCHANGED user_entry
    /\ UNCHANGED outsideCpu

\* kickoff_user_thread, thread.rs 86-92: the entry runs in ring 3.
KickoffUserThread ==
    /\ cpu_pc = "kickoff_user_thread"
    /\ cpu_pc' = "user_code"
    /\ UNCHANGED <<regs, rsp, rflags, cpl, segments, mem, tss_rsp0, cr3, current, running,
                   threads, thread_kind, kernel_stack_base, switch_entry, syscallVars>>
    /\ lifecycle' = Logged(current, "entry")
    /\ UNCHANGED user_entry
    /\ UNCHANGED outsideCpu

\* The entry of a kernel thread computes: it runs with interrupts enabled,
\* leaves any value in the registers and its stack balanced.
EntryCompute(seed, flags) ==
    /\ cpu_pc = "entry"
    /\ regs' = RegisterFile(running, seed)
    /\ rflags' = flags
    /\ UNCHANGED <<cpu_pc, rsp, cpl, segments, mem, tss_rsp0, cr3, current, running, threads,
                   thread_kind, kernel_stack_base, switch_entry, syscallVars>>
    /\ UNCHANGED lifeVars
    /\ UNCHANGED outsideCpu

\* kickoff_kernel_thread, thread.rs 77 and 83: the entry of a kernel thread
\* returns and kickoff_kernel_thread goes on to scheduler.exit().
EntryReturns ==
    /\ cpu_pc = "entry"
    /\ cpu_pc' = "scheduler_exit"
    /\ UNCHANGED <<regs, rsp, rflags, cpl, segments, mem, threadVars, syscallVars>>
    /\ UNCHANGED lifeVars
    /\ UNCHANGED outsideCpu

\* scheduler.exit(), thread.rs 83: the scheduler ends the calling thread and
\* never returns to it.
SchedulerExit ==
    /\ cpu_pc = "scheduler_exit"
    /\ lifecycle' = Logged(current, "exit")
    /\ UNCHANGED user_entry
    /\ cpu_pc' = "exited"
    /\ UNCHANGED <<regs, rsp, rflags, cpl, segments, mem, threadVars, syscallVars>>
    /\ UNCHANGED outsideCpu

\* Thread::switch, thread.rs 101-103: the running thread yields; the
\* scheduler has taken `next` from its ready queue (which does not hold the
\* running thread), made it the current thread, and calls thread_switch
\* with the four arguments.
SwitchCall(next) ==
    /\ cpu_pc = "entry"
    /\ next \in threads
    /\ next # running
    /\ LET args == [regs EXCEPT !["rdi"] = OldRsp0Field(running),
                                !["rsi"] = Load(mem, OldRsp0Field(next)),
                                !["rdx"] = kernel_stack_addr(kernel_stack_base[next]),
                                !["rcx"] = PageTableRoot(thread_kind, next)]
           c == Push(Cpu(args, rsp, rflags, mem), CodeAddr("switch_return"))
       IN  /\ regs' = c.regs
           /\ rsp' = c.rsp
           /\ mem' = c.mem
           /\ switch_entry' = [switch_entry EXCEPT ![running] =
                                  [regs |-> c.regs, rsp |-> c.rsp, rflags |-> rflags, valid |-> TRUE]]
    /\ current' = next
    /\ cpu_pc' = "thread_switch"
    /\ UNCHANGED <<rflags, cpl, segments, tss_rsp0, cr3, running, threads, thread_kind,
                   kernel_stack_base, syscallVars>>
    /\ UNCHANGED lifeVars
    /\ UNCHANGED outsideCpu

\* How many nested calls the entry of a kernel thread makes before it yields.
MaxCallDepth == 2

\* kickoff_kernel_thread calls the entry (thread.rs 77), and the entry calls
\* further functions before one of them reaches Thread::switch: every call
\* pushes its return address on the kernel stack of the thread.
EntryCallNested ==
    /\ cpu_pc = "entry"
    /\ thread_kind[running] = "kernel"
    /\ \E k \in (StackCapacity - MaxCallDepth) .. (StackCapacity - 1) :
           rsp = SlotAddr(kernel_stack_base[running], k)
    /\ LET c == Push(Cpu(regs, rsp, rflags, mem), CodeAddr("entry"))
       IN  /\ rsp' = c.rsp
           /\ mem' = c.mem
    /\ UNCHANGED <<cpu_pc, regs, rflags, cpl, segments, threadVars, syscallVars>>
    /\ UNCHANGED lifeVars
    /\ UNCHANGED outsideCpu

\* A nested call of the entry returns.
EntryRetNested ==
    /\ cpu_pc = "entry"
    /\ thread_kind[running] = "kernel"
    /\ \E k \in (StackCapacity - 1 - MaxCallDepth) .. (StackCapacity - 2) :
           rsp = SlotAddr(kernel_stack_base[running], k)
    /\ cpu_pc' = LabelAt(Load(mem, rsp))
    /\ rsp' = WordAdd(rsp, 8)
    /\ UNCHANGED <<regs, rflags, cpl, segments, mem, threadVars, syscallVars>>
    /\ UNCHANGED lifeVars
    /\ UNCHANGED outsideCpu

\* Thread::switch(current, next) with next the same thread as current,
\* thread.rs 101-103: the second argument next.old_rsp0.as_u64() is the
\* value the field holds when the arguments are evaluated, before
\* thread_switch stores the new stack pointer through the first argument.
SwitchCallSelf ==
    /\ cpu_pc = "entry"
    /\ LET args == [regs EXCEPT !["rdi"] = OldRsp0Field(running),
                                !["rsi"] = Load(mem, OldRsp0Field(running)),
                                !["rdx"] = kernel_stack_addr(kernel_stack_base[running]),
                                !["rcx"] = PageTableRoot(thread_kind, running)]
           c == Push(Cpu(args, rsp, rflags, mem), CodeAddr("switch_return"))
       IN  /\ regs' = c.regs
           /\ rsp' = c.rsp
           /\ mem' = c.mem
           /\ switch_entry' = [switch_entry EXCEPT ![running] =
                                  [regs |-> c.regs, rsp |-> c.rsp, rflags |-> rflags, valid |-> TRUE]]
    /\ current' = running
    /\ cpu_pc' = "thread_switch"
    /\ UNCHANGED <<rflags, cpl, segments, tss_rsp0, cr3, running, threads, thread_kind,
                   kernel_stack_base, syscallVars>>
    /\ UNCHANGED lifeVars
    /\ UNCHANGED outsideCpu

\* thread_switch, thread.rs 220-245: save the registers, store rsp through
\* the first parameter, keep rsi and rcx, pass the third parameter on.
ThreadSwitchSave ==
    /\ cpu_pc = "thread_switch"
    /\ LET saved == PushRegs(Pushf(Cpu(regs, rsp, rflags, mem)), SaveOrder)
           stored == [saved EXCEPT !.mem = Store(saved.mem, saved.regs["rdi"], saved.rsp)]
           c == MovReg(MovReg(MovReg(stored, "r12", "rsi"), "r13", "rcx"), "rdi", "rdx")
       IN  /\ regs' = c.regs
           /\ rsp' = c.rsp
           /\ mem' = c.mem
    /\ cpu_pc' = "thread_switch_tss"
    /\ UNCHANGED <<rflags, cpl, segments, tss_rsp0, cr3, current, running, threads,
                   thread_kind, kernel_stack_base, switch_entry, syscallVars>>
    /\ UNCHANGED lifeVars
    /\ UNCHANGED outsideCpu

\* tss_set_rsp0(rsp0): tss().lock().privilege_stack_table[0] = rsp0
tss_set_rsp0(rsp0) == rsp0

\* thread_switch, thread.rs 246: call tss_set_rsp0
ThreadSwitchSetTss(junk) ==
    /\ cpu_pc = "thread_switch_tss"
    /\ tss_rsp0' = tss_set_rsp0(regs["rdi"])
    /\ LET c == CallReturned(Cpu(regs, rsp, rflags, mem), CodeAddr("thread_switch_after_tss"), junk, junk)
       IN  /\ regs' = c.regs
           /\ mem' = c.mem
    /\ cpu_pc' = "thread_switch_cr3"
    /\ UNCHANGED <<rsp, rflags, cpl, segments, cr3, current, running, threads, thread_kind,
                   kernel_stack_base, switch_entry, syscallVars>>
    /\ UNCHANGED lifeVars
    /\ UNCHANGED outsideCpu

\* thread_switch, thread.rs 249-253: restore rcx and rsi, mov cr3, rcx
ThreadSwitchCr3 ==
    /\ cpu_pc = "thread_switch_cr3"
    /\ LET c == MovReg(MovReg(Cpu(regs, rsp, rflags, mem), "rcx", "r13"), "rsi", "r12")
       IN  /\ regs' = c.regs
           /\ cr3' = c.regs["rcx"]
    /\ cpu_pc' = "thread_switch_load"
    /\ UNCHANGED <<rsp, rflags, cpl, segments, mem, tss_rsp0, current, running, threads,
                   thread_kind, kernel_stack_base, switch_entry, syscallVars>>
    /\ UNCHANGED lifeVars
    /\ UNCHANGED outsideCpu

\* thread_switch, thread.rs 256: mov rsp, rsi
ThreadSwitchLoad ==
    /\ cpu_pc = "thread_switch_load"
    /\ rsp' = regs["rsi"]
    /\ running' = current
    /\ cpu_pc' = "thread_switch_pop"
    /\ UNCHANGED <<regs, rflags, cpl, segments, mem, tss_rsp0, cr3, current, threads,
                   thread_kind, kernel_stack_base, switch_entry, syscallVars>>
    /\ UNCHANGED lifeVars
    /\ UNCHANGED outsideCpu

\* thread_switch, thread.rs 257-272: the pops and popf
ThreadSwitchRestore ==
    /\ cpu_pc = "thread_switch_pop"
    /\ LET c == Popf(PopRegs(Cpu(regs, rsp, rflags, mem), RestoreOrder))
       IN  /\ regs' = c.regs
           /\ rflags' = c.rflags
           /\ rsp' = c.rsp
    /\ cpu_pc' = "thread_switch_ret"
    /\ UNCHANGED <<cpl, segments, mem, tss_rsp0, cr3, current, running, threads,
                   thread_kind, kernel_stack_base, switch_entry, syscallVars>>
    /\ UNCHANGED lifeVars
    /\ UNCHANGED outsideCpu

\* thread_switch, thread.rs 273: ret, into the next thread
ThreadSwitchRet ==
    /\ cpu_pc = "thread_switch_ret"
    /\ cpu_pc' = LabelAt(Load(mem, rsp))
    /\ rsp' = WordAdd(rsp, 8)
    /\ UNCHANGED <<regs, rflags, cpl, segments, mem, tss_rsp0, cr3, current, running, threads,
                   thread_kind, kernel_stack_base, switch_entry, syscallVars>>
    /\ UNCHANGED lifeVars
    /\ UNCHANGED outsideCpu

\* Thread::switch has returned in the resumed thread, which goes on.
SwitchReturn ==
    /\ cpu_pc = "switch_return"
    /\ cpu_pc' = "entry"
    /\ UNCHANGED <<regs, rsp, rflags, cpl, segments, mem, tss_rsp0, cr3, current, running,
                   threads, thread_kind, kernel_stack_base, switch_entry, syscallVars>>
    /\ UNCHANGED lifeVars
    /\ UNCHANGED outsideCpu

NextThread ==
    \/ \E t \in Threads : NewKernelThread(t)
    \/ \E t \in Threads : NewUserThread(t)
    \/ \E t \in Threads : StartFirst(t)
    \/ ThreadKernelStartLoad
    \/ ThreadKernelStartRestore
    \/ KickoffKernelThread
    \/ KickoffCallEntry
    \/ KickoffSwitchToUserMode
    \/ ThreadUserStart
    \/ KickoffUserThread
    \/ \E seed \in Seeds, flags \in EnabledFlags : EntryCompute(seed, flags)
    \/ \E next \in Threads : SwitchCall(next)
    \/ ThreadSwitchSave
    \/ \E junk \in JunkValues : ThreadSwitchSetTss(junk)
    \/ ThreadSwitchCr3
    \/ ThreadSwitchLoad
    \/ ThreadSwitchRestore
    \/ ThreadSwitchRet
    \/ SwitchReturn

\* A kernel thread whose entry makes nested calls and yields to itself.
NextSwitchSelf ==
    \/ \E t \in Threads : NewKernelThread(t)
    \/ \E t \in Threads : StartFirst(t)
    \/ ThreadKernelStartLoad
    \/ ThreadKernelStartRestore
    \/ KickoffKernelThread
    \/ KickoffCallEntry
    \/ \E seed \in Seeds : EntryCompute(seed, InitialRflags)
    \/ EntryCallNested
    \/ EntryRetNested
    \/ SwitchCallSelf
    \/ ThreadSwitchSave
    \/ \E junk \in JunkValues : ThreadSwitchSetTss(junk)
    \/ ThreadSwitchCr3
    \/ ThreadSwitchLoad
    \/ ThreadSwitchRestore
    \/ ThreadSwitchRet
    \/ SwitchReturn

(***************************************************************************)
(* System calls: syscall_dispatcher.rs                                     *)
(***************************************************************************)
\* SyscallTable::new, syscall_dispatcher.rs 41-49
SYSCALL_TABLE == <<"sys_thread_switch", "sys_thread_sleep", "sys_thread_exit">>

\* handle: [*const usize; NUM_SYSCALLS]
NUM_SYSCALLS == Len(SYSCALL_TABLE)

\* SegmentSelector::new(index, Ring0).0
KernelSelector(index) == WordOf(index * 8)

\* The arguments of Star::write with the two SYSRET selectors exchanged.
StarSysretSwapped ==
    [cs_syscall |-> KernelSelector(1), ss_syscall |-> KernelSelector(2),
     cs_sysret |-> UserSelector(3), ss_sysret |-> UserSelector(4)]

\* init(), syscall_dispatcher.rs 15-20: the selectors SYSCALL and SYSRET load.
Star ==
    [cs_syscall |-> KernelSelector(1), ss_syscall |-> KernelSelector(2),
     cs_sysret |-> UserSelector(4), ss_sysret |-> UserSelector(3)]

\* A selector is index * 8 + rpl (the table-indicator bit 2 is 0 everywhere).
SelectorIndex(sel) == sel[2] \div 8

SelectorRpl(sel) == sel[2] % 4

\* init_gdt, boot.rs 270-287: the table starts with the null descriptor and
\* add_entry appends; the TSS descriptor is a system descriptor of two slots.
GdtOrder ==
    <<"null", "kernel_code", "kernel_data", "user_data", "user_code", "tss", "tss_upper">>

\* The descriptor a selector picks.
GdtEntry(sel) ==
    IF SelectorIndex(sel) + 1 \in DOMAIN GdtOrder THEN GdtOrder[SelectorIndex(sel) + 1] ELSE "outside"

\* init_gdt, boot.rs 291: the selector given to ltr.
TssSelector == KernelSelector(5)

\* init_gdt, boot.rs 294-295: the selectors loaded into cs and ss at boot.
BootSegments == [cs |-> KernelSelector(1), ss |-> KernelSelector(2)]

\* Star::write(cs_sysret, ss_sysret, cs_syscall, ss_syscall) at
\* syscall_dispatcher.rs 20: it refuses selectors that SYSCALL and SYSRET
\* cannot derive from one base each, and otherwise stores
\* STAR[63:48] = ss_sysret - 8 and STAR[47:32] = cs_syscall.
StarMsr ==
    [ok |-> /\ Star.cs_sysret[2] - 16 = Star.ss_sysret[2] - 8
            /\ Star.cs_syscall[2] = Star.ss_syscall[2] - 8
            /\ SelectorRpl(Star.ss_sysret) = 3
            /\ SelectorRpl(Star.ss_syscall) = 0,
     sysret_base |-> Star.ss_sysret[2] - 8,
     syscall_base |-> Star.cs_syscall[2]]

\* n with the two low bits (the RPL) cleared.
ClearRpl(n) == n - (n % 4)

\* SYSCALL loads cs = STAR[47:32] with RPL 0 and ss = STAR[47:32] + 8.
SyscallLoads ==
    [cs |-> WordOf(ClearRpl(StarMsr.syscall_base)), ss |-> WordOf(StarMsr.syscall_base + 8)]

\* SYSRET to 64-bit mode loads cs = (STAR[63:48] + 16) | 3 and
\* ss = (STAR[63:48] + 8) | 3.
SysretLoads ==
    [cs |-> WordOf(ClearRpl(StarMsr.sysret_base + 16) + 3),
     ss |-> WordOf(ClearRpl(StarMsr.sysret_base + 8) + 3)]

\* The prelude pushes in this order (syscall_dispatcher.rs 67-79).
SyscallSaveOrder ==
    <<"rbx", "rcx", "rdx", "rdi", "rsi", "r8", "r9", "r10", "r11", "r12", "r13", "r14", "r15">>

\* The restore order with rcx and rdx exchanged.
SyscallRestoreOrderSwapped ==
    <<"r15", "r14", "r13", "r12", "r11", "r10", "r9", "r8", "rsi", "rdi", "rcx", "rdx", "rbx">>

\* The epilogue pops in this order (syscall_dispatcher.rs 110-122).
SyscallRestoreOrder ==
    <<"r15", "r14", "r13", "r12", "r11", "r10", "r9", "r8", "rsi", "rdi", "rdx", "rcx", "rbx">>

\* rflags with IF cleared (cli) or set (sti).
Cli(flags) == IF InterruptFlag(flags) THEN WordAdd(flags, -512) ELSE flags

Sti(flags) == IF InterruptFlag(flags) THEN flags ELSE WordAdd(flags, 512)

\* The ids user code puts into rax: the table indices, the first ids past
\* the table, a large positive value, and values with bit 63 set
\* (0xFFFF_FFFF_FFFF_FFFF, 0xFFFF_FFFF_0000_0000).
SyscallIds ==
    {WordOf(0), WordOf(1), WordOf(2), WordOf(3), WordOf(4),
     USER_STACK_ADDRESS, WordOf(-1), <<-256, 0>>}

\* What a handler may return in rax.
HandlerResults == {WordOf(0), WordOf(77)}

NoEntry ==
    [regs |-> ZeroRegisters, rsp |-> WordOf(0), rip |-> WordOf(0), rflags |-> WordOf(0),
     valid |-> FALSE]

\* No SYSCALL of the thread so far.
NoUserEntry == [rsp |-> WordOf(0), rip |-> WordOf(0), rflags |-> WordOf(0), active |-> FALSE]

NoCall ==
    [id |-> WordOf(0), rdi |-> WordOf(0), rsi |-> WordOf(0), rdx |-> WordOf(0),
     result |-> WordOf(0), reached |-> FALSE, returned |-> FALSE]

\* User code computes and sets up a system call: the id in rax, parameters
\* in rdi, rsi and rdx.
UserCompute(id, seed, flags) ==
    /\ cpu_pc = "user_code"
    /\ cpl = 3
    /\ regs' = [RegisterFile(running, seed) EXCEPT !["rax"] = id]
    /\ rflags' = flags
    /\ UNCHANGED <<cpu_pc, rsp, cpl, segments, mem, threadVars, syscallVars>>
    /\ UNCHANGED lifeVars
    /\ UNCHANGED outsideCpu

\* The SYSCALL instruction: rcx takes the return rip, r11 takes rflags, cs
\* and ss come from STAR, execution goes on in ring 0 at LSTAR =
\* syscall_handler, still on the user stack (init, syscall_dispatcher.rs 10-29).
\* init writes EFER, STAR and LSTAR and leaves SFMASK at its reset value 0,
\* so SYSCALL clears no bit of rflags.
SyscallInstruction ==
    /\ cpu_pc = "user_code"
    /\ cpl = 3
    /\ LET deposited == [regs EXCEPT !["rcx"] = CodeAddr("user_code"), !["r11"] = rflags]
       IN  /\ regs' = deposited
           /\ sys_entry' = [regs |-> deposited, rsp |-> rsp, rip |-> CodeAddr("user_code"),
                            rflags |-> rflags, valid |-> TRUE]
    /\ handler_call' = NoCall
    /\ segments' = SyscallLoads
    /\ cpl' = 0
    /\ cpu_pc' = "syscall_handler"
    /\ UNCHANGED <<rsp, rflags, mem, threadVars, syscall_number>>
    /\ user_entry' = [user_entry EXCEPT ![running] =
                          [rsp |-> rsp, rip |-> CodeAddr("user_code"), rflags |-> rflags,
                           active |-> TRUE]]
    /\ UNCHANGED lifecycle
    /\ UNCHANGED outsideCpu

\* syscall_handler, syscall_dispatcher.rs 64-85: cli, the pushes onto the
\* user stack, the id and the parameters put aside in r15, r14, r13, r12.
SyscallPrelude ==
    /\ cpu_pc = "syscall_handler"
    /\ LET saved == PushRegs(Cpu(regs, Translate(cr3, rsp), Cli(rflags), mem), SyscallSaveOrder)
           c == MovReg(MovReg(MovReg(MovReg(saved, "r15", "rax"), "r14", "rdi"), "r13", "rsi"),
                       "r12", "rdx")
       IN  /\ regs' = c.regs
           /\ rsp' = Untranslate(cr3, c.rsp)
           /\ rflags' = c.rflags
           /\ mem' = c.mem
    /\ cpu_pc' = "syscall_get_rsp0"
    /\ UNCHANGED <<cpl, segments, threadVars, syscallVars>>
    /\ UNCHANGED lifeVars
    /\ UNCHANGED outsideCpu

\* tss_get_rsp0(): tss().lock().privilege_stack_table[0]
tss_get_rsp0(tss) == tss

\* syscall_handler, syscall_dispatcher.rs 86: call tss_get_rsp0
SyscallGetRsp0(junk) ==
    /\ cpu_pc = "syscall_get_rsp0"
    /\ LET c == CallReturned(Cpu(regs, Translate(cr3, rsp), rflags, mem),
                             CodeAddr("syscall_after_get_rsp0"),
                             tss_get_rsp0(tss_rsp0), junk)
       IN  /\ regs' = c.regs
           /\ mem' = c.mem
    /\ cpu_pc' = "syscall_switch_stack"
    /\ UNCHANGED <<rsp, rflags, cpl, segments, threadVars, syscallVars>>
    /\ UNCHANGED lifeVars
    /\ UNCHANGED outsideCpu

\* syscall_handler, syscall_dispatcher.rs 87-95: onto the kernel stack, the
\* user rsp pushed there, sti.
SyscallSwitchStack ==
    /\ cpu_pc = "syscall_switch_stack"
    /\ LET kept == [regs EXCEPT !["rbx"] = regs["rax"], !["rcx"] = rsp]
           c == MovReg(MovReg(MovReg(MovReg(Cpu(kept, rsp, rflags, mem),
                       "rdx", "r12"), "rsi", "r13"), "rdi", "r14"), "rax", "r15")
           d == PushReg([c EXCEPT !.rsp = c.regs["rbx"]], "rcx")
       IN  /\ regs' = d.regs
           /\ rsp' = d.rsp
           /\ mem' = d.mem
    /\ rflags' = Sti(rflags)
    /\ cpu_pc' = "syscall_check"
    /\ UNCHANGED <<cpl, segments, threadVars, syscallVars>>
    /\ UNCHANGED lifeVars
    /\ UNCHANGED outsideCpu

\* cmp rax, NUM_SYSCALLS; jge: taken when rax >= NUM_SYSCALLS as signed
\* 64-bit values (syscall_dispatcher.rs 98-99).
IdOutOfBounds(id) == SignedGE(id, WordOf(NUM_SYSCALLS))

\* syscall_handler, syscall_dispatcher.rs 98-102: jge syscall_abort, or
\* call syscall_disp.
SyscallBoundsCheck ==
    /\ cpu_pc = "syscall_check"
    /\ IF IdOutOfBounds(regs["rax"])
       THEN /\ cpu_pc' = "syscall_abort"
            /\ UNCHANGED <<rsp, mem>>
       ELSE LET c == Push(Cpu(regs, rsp, rflags, mem), CodeAddr("syscall_after_disp"))
            IN  /\ rsp' = c.rsp
                /\ mem' = c.mem
                /\ cpu_pc' = "syscall_disp"
    /\ UNCHANGED <<regs, rflags, cpl, segments, threadVars, syscallVars>>
    /\ UNCHANGED lifeVars
    /\ UNCHANGED outsideCpu

\* syscall_abort, syscall_dispatcher.rs 143-151: reads the id and panics.
SyscallAbort ==
    /\ cpu_pc = "syscall_abort"
    /\ syscall_number' = <<regs["rax"]>>
    /\ cpu_pc' = "panic"
    /\ UNCHANGED <<regs, rsp, rflags, cpl, segments, mem, threadVars, sys_entry, handler_call>>
    /\ UNCHANGED lifeVars
    /\ UNCHANGED outsideCpu

\* syscall_disp, syscall_dispatcher.rs 136: call [SYSCALL_TABLE + 8 * rax].
\* With rax inside the table the handler is entered; any other rax makes the
\* processor call through whatever 8 bytes lie at that address.
SyscallDisp ==
    /\ cpu_pc = "syscall_disp"
    /\ LET c == Push(Cpu(regs, rsp, rflags, mem), CodeAddr("syscall_disp_ret"))
       IN  /\ rsp' = c.rsp
           /\ mem' = c.mem
    /\ handler_call' = [id |-> regs["rax"], rdi |-> regs["rdi"], rsi |-> regs["rsi"],
                        rdx |-> regs["rdx"], result |-> WordOf(0), reached |-> TRUE,
                        returned |-> FALSE]
    /\ cpu_pc' = IF regs["rax"] \in {WordOf(i) : i \in 0..(NUM_SYSCALLS - 1)}
                 THEN SYSCALL_TABLE[regs["rax"][2] + 1]
                 ELSE "wild_call"
    /\ UNCHANGED <<regs, rflags, cpl, segments, threadVars, sys_entry, syscall_number>>
    /\ UNCHANGED lifeVars
    /\ UNCHANGED outsideCpu

\* sys_thread_switch and sys_thread_sleep return to syscall_disp as C-ABI
\* functions do: the result in rax, the caller-saved registers overwritten,
\* rbx, rbp, r12-r15 and the stack above the return address as they were.
HandlerReturn(result, junk) ==
    /\ cpu_pc \in {"sys_thread_switch", "sys_thread_sleep"}
    /\ regs' = [r \in GeneralRegisters |->
                   IF r = "rax" THEN result ELSE IF r \in CallerSaved THEN junk ELSE regs[r]]
    /\ cpu_pc' = LabelAt(Load(mem, rsp))
    /\ rsp' = WordAdd(rsp, 8)
    /\ handler_call' = [handler_call EXCEPT !.result = result, !.returned = TRUE]
    /\ UNCHANGED <<rflags, cpl, segments, mem, threadVars, sys_entry, syscall_number>>
    /\ UNCHANGED lifeVars
    /\ UNCHANGED outsideCpu

\* sys_thread_exit ends the thread and does not return.
HandlerExit ==
    /\ cpu_pc = "sys_thread_exit"
    /\ cpu_pc' = "exited"
    /\ UNCHANGED <<regs, rsp, rflags, cpl, segments, mem, threadVars, syscallVars>>
    /\ lifecycle' = Logged(current, "exit")
    /\ UNCHANGED user_entry
    /\ UNCHANGED outsideCpu

\* syscall_disp, syscall_dispatcher.rs 137: ret
SyscallDispRet ==
    /\ cpu_pc = "syscall_disp_ret"
    /\ cpu_pc' = LabelAt(Load(mem, rsp))
    /\ rsp' = WordAdd(rsp, 8)
    /\ UNCHANGED <<regs, rflags, cpl, segments, mem, threadVars, syscallVars>>
    /\ UNCHANGED lifeVars
    /\ UNCHANGED outsideCpu

\* syscall_handler, syscall_dispatcher.rs 106-122: cli, pop rsp, the pops
\* from the user stack.
SyscallEpilogue ==
    /\ cpu_pc = "syscall_after_disp"
    /\ LET c == PopRegs([Cpu(regs, rsp, Cli(rflags), mem)
                            EXCEPT !.rsp = Translate(cr3, Load(mem, rsp))],
                        SyscallRestoreOrder)
       IN  /\ regs' = c.regs
           /\ rsp' = Untranslate(cr3, c.rsp)
           /\ rflags' = c.rflags
    /\ cpu_pc' = "sysretq"
    /\ UNCHANGED <<cpl, segments, mem, threadVars, syscallVars>>
    /\ UNCHANGED lifeVars
    /\ UNCHANGED outsideCpu

\* syscall_handler, syscall_dispatcher.rs 126: sysretq loads rip from rcx,
\* rflags from r11, cs and ss from STAR, and continues in ring 3.
Sysretq ==
    /\ cpu_pc = "sysretq"
    /\ cpu_pc' = LabelAt(regs["rcx"])
    /\ rflags' = regs["r11"]
    /\ segments' = SysretLoads
    /\ cpl' = 3
    /\ UNCHANGED <<regs, rsp, mem, threadVars, syscallVars>>
    /\ user_entry' = [user_entry EXCEPT ![running].active = FALSE]
    /\ UNCHANGED lifecycle
    /\ UNCHANGED outsideCpu

(***************************************************************************)
(* User threads that yield: the switch system call                         *)
(***************************************************************************)
\* sys_thread_switch, entered through SYSCALL_TABLE[0], yields the
\* processor: the scheduler takes `next` from its ready queue, makes it the
\* current thread and calls Thread::switch (thread.rs 101-103) on the stack
\* the trampoline has switched to.
SysThreadSwitch(next) ==
    /\ cpu_pc = "sys_thread_switch"
    /\ next \in threads
    /\ next # running
    /\ LET args == [regs EXCEPT !["rdi"] = OldRsp0Field(running),
                                !["rsi"] = Load(mem, OldRsp0Field(next)),
                                !["rdx"] = kernel_stack_addr(kernel_stack_base[next]),
                                !["rcx"] = PageTableRoot(thread_kind, next)]
           c == Push(Cpu(args, rsp, rflags, mem), CodeAddr("sys_thread_switch_return"))
       IN  /\ regs' = c.regs
           /\ rsp' = c.rsp
           /\ mem' = c.mem
           /\ switch_entry' = [switch_entry EXCEPT ![running] =
                                  [regs |-> c.regs, rsp |-> c.rsp, rflags |-> rflags, valid |-> TRUE]]
    /\ current' = next
    /\ cpu_pc' = "thread_switch"
    /\ UNCHANGED <<rflags, cpl, segments, tss_rsp0, cr3, running, threads, thread_kind,
                   kernel_stack_base, syscallVars>>
    /\ UNCHANGED lifeVars
    /\ UNCHANGED outsideCpu

\* Thread::switch has returned into sys_thread_switch of the resumed thread.
SysThreadSwitchReturn ==
    /\ cpu_pc = "sys_thread_switch_return"
    /\ cpu_pc' = "sys_thread_switch"
    /\ UNCHANGED <<regs, rsp, rflags, cpl, segments, mem, threadVars, syscallVars>>
    /\ UNCHANGED lifeVars
    /\ UNCHANGED outsideCpu

NextYield ==
    \/ \E t \in Threads : NewUserThread(t)
    \/ \E t \in Threads : StartFirst(t)
    \/ ThreadKernelStartLoad
    \/ ThreadKernelStartRestore
    \/ KickoffKernelThread
    \/ KickoffSwitchToUserMode
    \/ ThreadUserStart
    \/ KickoffUserThread
    \/ \E seed \in Seeds : UserCompute(WordOf(0), seed, InitialRflags)
    \/ SyscallInstruction
    \/ SyscallPrelude
    \/ \E junk \in JunkValues : SyscallGetRsp0(junk)
    \/ SyscallSwitchStack
    \/ SyscallBoundsCheck
    \/ SyscallDisp
    \/ \E next \in Threads : SysThreadSwitch(next)
    \/ ThreadSwitchSave
    \/ \E junk \in JunkValues : ThreadSwitchSetTss(junk)
    \/ ThreadSwitchCr3
    \/ ThreadSwitchLoad
    \/ ThreadSwitchRestore
    \/ ThreadSwitchRet
    \/ SysThreadSwitchReturn
    \/ \E result \in HandlerResults, junk \in JunkValues : HandlerReturn(result, junk)
    \/ SyscallDispRet
    \/ SyscallEpilogue
    \/ Sysretq

\* The whole life of kernel and user threads: creation, first run, entry,
\* yields between kernel threads, and the end of the thread (a user thread's
\* kickoff_user_thread ends it with the thread-exit system call, number 2).
NextLifecycle ==
    \/ \E t \in Threads : NewKernelThread(t)
    \/ \E t \in Threads : NewUserThread(t)
    \/ \E t \in Threads : StartFirst(t)
    \/ ThreadKernelStartLoad
    \/ ThreadKernelStartRestore
    \/ KickoffKernelThread
    \/ KickoffCallEntry
    \/ KickoffSwitchToUserMode
    \/ ThreadUserStart
    \/ KickoffUserThread
    \/ \E seed \in Seeds : EntryCompute(seed, InitialRflags)
    \/ EntryReturns
    \/ SchedulerExit
    \/ \E next \in Threads : SwitchCall(next)
    \/ ThreadSwitchSave
    \/ \E junk \in JunkValues : ThreadSwitchSetTss(junk)
    \/ ThreadSwitchCr3
    \/ ThreadSwitchLoad
    \/ ThreadSwitchRestore
    \/ ThreadSwitchRet
    \/ SwitchReturn
    \/ \E seed \in Seeds : UserCompute(WordOf(2), seed, InitialRflags)
    \/ SyscallInstruction
    \/ SyscallPrelude
    \/ \E junk \in JunkValues : SyscallGetRsp0(junk)
    \/ SyscallSwitchStack
    \/ SyscallBoundsCheck
    \/ SyscallDisp
    \/ HandlerExit

NextSyscall ==
    \/ \E t \in Threads : NewUserThread(t)
    \/ \E t \in Threads : StartFirst(t)
    \/ ThreadKernelStartLoad
    \/ ThreadKernelStartRestore
    \/ KickoffKernelThread
    \/ KickoffSwitchToUserMode
    \/ ThreadUserStart
    \/ KickoffUserThread
    \/ \E id \in SyscallIds, seed \in Seeds, flags \in EnabledFlags : UserCompute(id, seed, flags)
    \/ SyscallInstruction
    \/ SyscallPrelude
    \/ \E junk \in JunkValues : SyscallGetRsp0(junk)
    \/ SyscallSwitchStack
    \/ SyscallBoundsCheck
    \/ SyscallAbort
    \/ SyscallDisp
    \/ \E result \in HandlerResults, junk \in JunkValues : HandlerReturn(result, junk)
    \/ HandlerExit
    \/ SyscallDispRet
    \/ SyscallEpilogue
    \/ Sysretq

(***************************************************************************)
(* Specifications                                                          *)
(***************************************************************************)
NextCut == CutCall

InitCut ==
    /\ cut_pc = "input"
    /\ cut_regions \in {rs \in CutRegionLists : PairwiseDisjoint(rs)}
    /\ cut_reserved \in CutReservedRanges
    /\ cut_result = <<>>
    /\ cut_other = PhysFrameRange(0, 0)
    /\ cut_swapped = <<>>
    /\ cut_once = <<>>
    /\ boot_pc = "off"
    /\ map_source = "none"
    /\ memory_map = <<>>
    /\ kernel_image = [start |-> 0, data_end |-> 0]
    /\ heap_region = PhysFrameRange(0, 0)
    /\ heap_initialized = FALSE
    /\ memory_regions = <<>>
    /\ frame_allocator = <<>>
    /\ panic_message = ""
    /\ bring_up = <<>>
    /\ lifecycle = [t \in Threads |-> <<>>]
    /\ user_entry = [t \in Threads |-> NoUserEntry]
    /\ cpu_pc = "off"
    /\ regs = ZeroRegisters
    /\ rsp = WordOf(0)
    /\ rflags = WordOf(2)
    /\ cpl = 0
    /\ segments = [cs |-> KernelSelector(1), ss |-> KernelSelector(2)]
    /\ mem = [a \in {} |-> WordOf(0)]
    /\ tss_rsp0 = WordOf(0)
    /\ cr3 = WordOf(0)
    /\ current = 0
    /\ running = 0
    /\ threads = {}
    /\ thread_kind = [t \in Threads |-> "none"]
    /\ kernel_stack_base = [t \in Threads |-> WordOf(0)]
    /\ switch_entry = [t \in Threads |-> NoSnapshot]
    /\ sys_entry = NoEntry
    /\ handler_call = NoCall
    /\ syscall_number = <<>>

SpecCut == InitCut /\ [][NextCut]_vars

\* cut_region flat-maps the list, so the laws of two cuts are exercised on
\* every list of at most two ranges, overlapping and inverted ones included.
CutShortLists ==
    {<<>>} \cup {<<r>> : r \in CutRanges} \cup {<<r, q>> : r \in CutRanges, q \in CutRanges}

NextCutTwice == CutTwice

InitCutTwice ==
    /\ cut_pc = "input"
    /\ cut_regions \in CutShortLists
    /\ cut_reserved \in CutReservedRanges
    /\ cut_result = <<>>
    /\ cut_other \in {r \in CutReservedRanges : ~Overlap(cut_reserved, r)}
    /\ cut_swapped = <<>>
    /\ cut_once = <<>>
    /\ boot_pc = "off"
    /\ map_source = "none"
    /\ memory_map = <<>>
    /\ kernel_image = [start |-> 0, data_end |-> 0]
    /\ heap_region = PhysFrameRange(0, 0)
    /\ heap_initialized = FALSE
    /\ memory_regions = <<>>
    /\ frame_allocator = <<>>
    /\ panic_message = ""
    /\ bring_up = <<>>
    /\ lifecycle = [t \in Threads |-> <<>>]
    /\ user_entry = [t \in Threads |-> NoUserEntry]
    /\ cpu_pc = "off"
    /\ regs = ZeroRegisters
    /\ rsp = WordOf(0)
    /\ rflags = WordOf(2)
    /\ cpl = 0
    /\ segments = [cs |-> KernelSelector(1), ss |-> KernelSelector(2)]
    /\ mem = [a \in {} |-> WordOf(0)]
    /\ tss_rsp0 = WordOf(0)
    /\ cr3 = WordOf(0)
    /\ current = 0
    /\ running = 0
    /\ threads = {}
    /\ thread_kind = [t \in Threads |-> "none"]
    /\ kernel_stack_base = [t \in Threads |-> WordOf(0)]
    /\ switch_entry = [t \in Threads |-> NoSnapshot]
    /\ sys_entry = NoEntry
    /\ handler_call = NoCall
    /\ syscall_number = <<>>

SpecCutTwice == InitCutTwice /\ [][NextCutTwice]_vars

\* The same reserved region cut out twice.
NextCutAgain == CutTwice

InitCutAgain ==
    /\ cut_pc = "input"
    /\ cut_regions \in CutShortLists
    /\ cut_reserved \in CutReservedRanges
    /\ cut_result = <<>>
    /\ cut_other = cut_reserved
    /\ cut_swapped = <<>>
    /\ cut_once = <<>>
    /\ boot_pc = "off"
    /\ map_source = "none"
    /\ memory_map = <<>>
    /\ kernel_image = [start |-> 0, data_end |-> 0]
    /\ heap_region = PhysFrameRange(0, 0)
    /\ heap_initialized = FALSE
    /\ memory_regions = <<>>
    /\ frame_allocator = <<>>
    /\ panic_message = ""
    /\ bring_up = <<>>
    /\ lifecycle = [t \in Threads |-> <<>>]
    /\ user_entry = [t \in Threads |-> NoUserEntry]
    /\ cpu_pc = "off"
    /\ regs = ZeroRegisters
    /\ rsp = WordOf(0)
    /\ rflags = WordOf(2)
    /\ cpl = 0
    /\ segments = [cs |-> KernelSelector(1), ss |-> KernelSelector(2)]
    /\ mem = [a \in {} |-> WordOf(0)]
    /\ tss_rsp0 = WordOf(0)
    /\ cr3 = WordOf(0)
    /\ current = 0
    /\ running = 0
    /\ threads = {}
    /\ thread_kind = [t \in Threads |-> "none"]
    /\ kernel_stack_base = [t \in Threads |-> WordOf(0)]
    /\ switch_entry = [t \in Threads |-> NoSnapshot]
    /\ sys_entry = NoEntry
    /\ handler_call = NoCall
    /\ syscall_number = <<>>

SpecCutAgain == InitCutAgain /\ [][NextCutAgain]_vars

InitBoot ==
    /\ boot_pc = "scan"
    /\ map_source \in {"efi_boot_services", "efi_memory_map_tag", "memory_map_tag", "none"}
    /\ memory_map \in (CASE map_source = "none" -> {<<>>}
                         [] map_source = "memory_map_tag" -> MapsOver(Mb2Areas)
                         [] OTHER -> MapsOver(EfiAreas))
    /\ kernel_image \in KernelImages
    /\ heap_region = PhysFrameRange(0, 0)
    /\ heap_initialized = FALSE
    /\ memory_regions = <<>>
    /\ frame_allocator = <<>>
    /\ panic_message = ""
    /\ bring_up = <<>>
    /\ lifecycle = [t \in Threads |-> <<>>]
    /\ user_entry = [t \in Threads |-> NoUserEntry]
    /\ cut_pc = "off"
    /\ cut_regions = <<>>
    /\ cut_reserved = PhysFrameRange(0, 0)
    /\ cut_result = <<>>
    /\ cut_other = PhysFrameRange(0, 0)
    /\ cut_swapped = <<>>
    /\ cut_once = <<>>
    /\ cpu_pc = "off"
    /\ regs = ZeroRegisters
    /\ rsp = WordOf(0)
    /\ rflags = WordOf(2)
    /\ cpl = 0
    /\ segments = [cs |-> KernelSelector(1), ss |-> KernelSelector(2)]
    /\ mem = [a \in {} |-> WordOf(0)]
    /\ tss_rsp0 = WordOf(0)
    /\ cr3 = WordOf(0)
    /\ current = 0
    /\ running = 0
    /\ threads = {}
    /\ thread_kind = [t \in Threads |-> "none"]
    /\ kernel_stack_base = [t \in Threads |-> WordOf(0)]
    /\ switch_entry = [t \in Threads |-> NoSnapshot]
    /\ sys_entry = NoEntry
    /\ handler_call = NoCall
    /\ syscall_number = <<>>

SpecBoot == InitBoot /\ [][NextBoot]_vars

\* The processor when start() hands over to the scheduler (boot.rs 239-261):
\* ring 0 on the boot stack, interrupts enabled (boot.rs 210), the kernel
\* address space in CR3, a TSS whose rsp0 has never been written, no thread.
InitCpu ==
    /\ cpu_pc = "boot"
    /\ regs = ZeroRegisters
    /\ rsp = WordOf(640 * PAGE_SIZE)
    /\ rflags = InitialRflags
    /\ cpl = 0
    /\ segments = [cs |-> KernelSelector(1), ss |-> KernelSelector(2)]
    /\ mem = [a \in {} |-> WordOf(0)]
    /\ tss_rsp0 = WordOf(0)
    /\ cr3 = WordOf(1537 * PAGE_SIZE)
    /\ current = 0
    /\ running = 0
    /\ threads = {}
    /\ thread_kind = [t \in Threads |-> "none"]
    /\ kernel_stack_base \in StackLayouts
    /\ switch_entry = [t \in Threads |-> NoSnapshot]
    /\ sys_entry = NoEntry
    /\ handler_call = NoCall
    /\ syscall_number = <<>>
    /\ cut_pc = "off"
    /\ cut_regions = <<>>
    /\ cut_reserved = PhysFrameRange(0, 0)
    /\ cut_result = <<>>
    /\ cut_other = PhysFrameRange(0, 0)
    /\ cut_swapped = <<>>
    /\ cut_once = <<>>
    /\ boot_pc = "off"
    /\ map_source = "none"
    /\ memory_map = <<>>
    /\ kernel_image = [start |-> 0, data_end |-> 0]
    /\ heap_region = PhysFrameRange(0, 0)
    /\ heap_initialized = FALSE
    /\ memory_regions = <<>>
    /\ frame_allocator = <<>>
    /\ panic_message = ""
    /\ bring_up = <<>>
    /\ lifecycle = [t \in Threads |-> <<>>]
    /\ user_entry = [t \in Threads |-> NoUserEntry]

SpecThread == InitCpu /\ [][NextThread]_vars

SpecSwitchSelf == InitCpu /\ [][NextSwitchSelf]_vars

SpecSyscall == InitCpu /\ [][NextSyscall]_vars

SpecYield == InitCpu /\ [][NextYield]_vars

SpecLifecycle == InitCpu /\ [][NextLifecycle]_vars

(***************************************************************************)
(* Claims about the boot-time memory discovery                             *)
(***************************************************************************)
\* The scanner of the provided map ran and returned.
BootScanned == boot_pc \in {"gdt", "cut_null", "cut_kernel", "cut_heap", "physical_init", "paging"}

\* An entry typed usable, for either kind of map.
AreaUsable(area) ==
    IF "typ" \in DOMAIN area THEN area.typ = "Available" ELSE EfiUsable(area.ty)

\* The number of pages of an entry, for either kind of map.
AreaPageCount(area) ==
    IF "typ" \in DOMAIN area THEN area.size \div PAGE_SIZE ELSE area.page_count

\* The indices of the entries that qualify for the bootstrap heap.
HeapQualified ==
    {i \in 1..Len(memory_map) :
        /\ AreaUsable(memory_map[i])
        /\ AreaPageCount(memory_map[i]) >= INIT_HEAP_PAGES
        /\ AreaBytes(memory_map[i]).start >= kernel_image_region(kernel_image).end}

(***************************************************************************)
(* C7: the region list handed to memory::physical::init after the three    *)
(* cuts is frame-aligned, has no range starting at physical 0, no range    *)
(* overlapping the kernel image, none overlapping the bootstrap heap, and  *)
(* its ranges are pairwise disjoint.                                       *)
(***************************************************************************)
C7_FinalRegionList ==
    boot_pc = "paging" =>
        /\ \A i \in 1..Len(frame_allocator) :
              /\ IsFrameStart(frame_allocator[i].start)
              /\ IsFrameStart(frame_allocator[i].end)
              /\ frame_allocator[i].start # 0
              /\ ~Overlap(frame_allocator[i], kernel_image_region(kernel_image))
              /\ ~Overlap(frame_allocator[i], heap_region)
        /\ PairwiseDisjoint(frame_allocator)

\* A boot whose map has a usable entry that starts at 0 and runs over the
\* kernel image: all of the cuts acted and left at least two ranges.
C7_Witness ==
    /\ boot_pc = "paging"
    /\ \E i \in 1..Len(memory_map) :
          /\ AreaUsable(memory_map[i])
          /\ AreaBytes(memory_map[i]).start = 0
          /\ Overlap(AreaBytes(memory_map[i]), kernel_image_region(kernel_image))
    /\ Len(frame_allocator) >= 2

(***************************************************************************)
(* C8: in each scanner the bootstrap heap is the first INIT_HEAP_PAGES     *)
(* frames of the qualifying entry (usable, page count >= INIT_HEAP_PAGES,  *)
(* start >= kernel image end) with the smallest start address; if no entry *)
(* qualifies the boot panics with the no-heap message and no heap is       *)
(* initialized.                                                            *)
(***************************************************************************)
C8_HeapSelection ==
    (map_source # "none" /\ boot_pc # "scan" /\ boot_pc # "off") =>
        IF HeapQualified = {}
        THEN boot_pc = "panic" /\ panic_message = NoHeapMessage /\ ~heap_initialized
        ELSE LET chosen == CHOOSE i \in HeapQualified :
                               \A j \in HeapQualified :
                                   AreaBytes(memory_map[i]).start <= AreaBytes(memory_map[j]).start
                 bytes == AreaBytes(memory_map[chosen])
             IN  /\ BootScanned
                 /\ heap_initialized
                 /\ heap_region.start = AlignUp(bytes.start)
                 /\ heap_region.end = heap_region.start + INIT_HEAP_PAGES * PAGE_SIZE
                 /\ heap_region.end <= AlignDown(bytes.end)

(***************************************************************************)
(* C9: whenever a scanner returns, the bootstrap heap range lies entirely  *)
(* within one usable entry of the source map and at or above the kernel    *)
(* image end.                                                              *)
(***************************************************************************)
C9_HeapInsideUsableEntry ==
    BootScanned =>
        /\ \E i \in 1..Len(memory_map) :
              /\ AreaUsable(memory_map[i])
              /\ AreaBytes(memory_map[i]).start <= heap_region.start
              /\ heap_region.end <= AreaBytes(memory_map[i]).end
        /\ heap_region.start >= kernel_image.data_end

(***************************************************************************)
(* C10: end-to-end scenario. Map: the single usable range                  *)
(* [0x100000, 0x10000000); kernel image [0x100000, 0x200000).              *)
(***************************************************************************)
\* The map holds the single usable range [first, 0x10000000) and the kernel
\* image occupies [0x100000, 0x200000).
SingleRangeScenario(first) ==
    /\ Len(memory_map) = 1
    /\ AreaUsable(memory_map[1])
    /\ AreaBytes(memory_map[1]) = PhysFrameRange(first, 65536 * PAGE_SIZE)
    /\ kernel_image_region(kernel_image) = PhysFrameRange(256 * PAGE_SIZE, 512 * PAGE_SIZE)

\* The boot got past the physical memory set-up (a panic with a non-empty
\* bring_up log is one of the later bring-up steps) with the stated heap and
\* region list.
ExpectedHeapAndRegions ==
    /\ boot_pc = "paging" \/ bring_up # <<>>
    /\ heap_region = PhysFrameRange(512 * PAGE_SIZE, 1536 * PAGE_SIZE)
    /\ frame_allocator = <<PhysFrameRange(1536 * PAGE_SIZE, 65536 * PAGE_SIZE)>>

\* C10 as stated: the scenario ends with heap = [0x200000, 0x600000) and the
\* final region list { [0x600000, 0x10000000) }.
C10_AsStated ==
    (SingleRangeScenario(256 * PAGE_SIZE) /\ boot_pc \in {"panic", "paging"}) =>
        ExpectedHeapAndRegions

\* C10 amended: on that map the only usable entry starts below the kernel
\* image end, no entry qualifies for the heap and the scanner panics without
\* initializing a heap; the stated heap and region list are what the boot
\* yields when the usable range is [0x200000, 0x10000000).
C10_ScenarioPanics ==
    /\ (SingleRangeScenario(256 * PAGE_SIZE) /\ boot_pc # "scan") =>
            /\ boot_pc = "panic"
            /\ panic_message = NoHeapMessage
            /\ ~heap_initialized
            /\ frame_allocator = <<>>
    /\ (SingleRangeScenario(512 * PAGE_SIZE) /\ boot_pc \in {"panic", "paging"}) =>
            ExpectedHeapAndRegions

C10_Witness ==
    /\ SingleRangeScenario(256 * PAGE_SIZE)
    /\ map_source = "memory_map_tag"
    /\ boot_pc = "panic"

(***************************************************************************)
(* C19: for every usable entry of the native multiboot2 map with unaligned *)
(* bounds the scanner rounds the start up and the end down to 4 KiB, and   *)
(* an entry for which the rounding leaves no whole frame (rounded start >= *)
(* rounded end) contributes no range to the list the scanner returns nor   *)
(* to the final list handed to the frame allocator.                        *)
(***************************************************************************)
\* The Available entries of the native map, in map order.
Mb2Usable == SelectSeq(memory_map, LAMBDA area : area.typ = "Available")

\* r is the entry with its start rounded up and its end rounded down to a
\* frame boundary.
RoundedInward(area, r) ==
    /\ r.start % PAGE_SIZE = 0
    /\ r.start >= area.start
    /\ r.start - area.start < PAGE_SIZE
    /\ r.end % PAGE_SIZE = 0
    /\ r.end <= area.start + area.size
    /\ (area.start + area.size) - r.end < PAGE_SIZE

\* The rounding leaves at least one whole frame of the entry.
HasWholeFrame(area) == AlignUp(area.start) < AlignDown(Mb2EndAddress(area))

NoEmptyRange(rs) == \A i \in 1..Len(rs) : rs[i].start < rs[i].end

C19_RoundedAndEmptyDropped ==
    map_source = "memory_map_tag" =>
        /\ boot_pc = "gdt" =>
                LET kept == SelectSeq(Mb2Usable, HasWholeFrame)
                IN  /\ Len(memory_regions) = Len(kept)
                    /\ \A i \in 1..Len(kept) : RoundedInward(kept[i], memory_regions[i])
        /\ NoEmptyRange(frame_allocator)

(***************************************************************************)
(* C20: for every region list R and every two disjoint reserved ranges A   *)
(* and B (adjacent ones included), cut_region(cut_region(R, A), B) equals  *)
(* cut_region(cut_region(R, B), A).                                        *)
(***************************************************************************)
C20_CutsCommute ==
    (cut_pc = "done" /\ ~Overlap(cut_reserved, cut_other)) => cut_result = cut_swapped

\* Two adjacent non-empty reserved ranges inside one region: both cuts act
\* on it, and together they leave a piece below and a piece above.
C20_Witness ==
    /\ cut_pc = "done"
    /\ cut_reserved.start < cut_reserved.end
    /\ cut_reserved.end = cut_other.start
    /\ cut_other.start < cut_other.end
    /\ \E i \in 1..Len(cut_regions) :
          /\ cut_regions[i].start < cut_reserved.start
          /\ cut_other.end < cut_regions[i].end
    /\ Len(cut_result) = Len(cut_regions) + 1
    /\ cut_result = cut_swapped

(***************************************************************************)
(* C21: cut_region is idempotent: for every region list R and every        *)
(* reserved range K, cut_region(cut_region(R, K), K) = cut_region(R, K).   *)
(***************************************************************************)
C21_CutIdempotent ==
    (cut_pc = "done" /\ cut_other = cut_reserved) => cut_result = cut_once

\* A non-empty reserved range strictly inside a region: the first cut splits
\* the region, the second leaves both pieces as they are.
C21_Witness ==
    /\ cut_pc = "done"
    /\ cut_other = cut_reserved
    /\ cut_reserved.start < cut_reserved.end
    /\ \E i \in 1..Len(cut_regions) :
          /\ cut_regions[i].start < cut_reserved.start
          /\ cut_reserved.end < cut_regions[i].end
    /\ Len(cut_once) = Len(cut_regions) + 1
    /\ cut_result = cut_once

(***************************************************************************)
(* C22: after switch_to_user_mode has written its frame, old_rsp0 points   *)
(* at the preloaded rdi slot, and pop rdi; iretq from old_rsp0 yields      *)
(* rdi = 0, rip = kickoff_user_thread, cs = user code (GDT index 4, RPL 3),*)
(* rflags = 0x202, rsp = the top slot of the user stack and ss = user data *)
(* (GDT index 3, RPL 3).                                                   *)
(***************************************************************************)
C22_UserModeFrame ==
    /\ cpu_pc = "thread_user_start" =>
          LET old_rsp0 == Load(mem, OldRsp0Field(current))
          IN  /\ old_rsp0 = SlotAddr(kernel_stack_base[current], StackCapacity - 7)
              /\ regs["rdi"] = old_rsp0
              /\ Load(mem, old_rsp0) = WordOf(0)
    /\ cpu_pc = "kickoff_user_thread" =>
          /\ regs["rdi"] = WordOf(0)
          /\ segments.cs = WordOf(4 * 8 + 3)
          /\ cpl = 3
          /\ rflags = WordOf(514)
          /\ rsp = WordAdd(USER_STACK_ADDRESS, 8 * (StackCapacity - 1))
          /\ segments.ss = WordOf(3 * 8 + 3)

\* A user thread has made the iretq and is at kickoff_user_thread in ring 3.
C22_Witness ==
    /\ cpu_pc = "kickoff_user_thread"
    /\ thread_kind[current] = "user"
    /\ cpl = 3
    /\ rsp = WordAdd(USER_STACK_ADDRESS, 8 * (StackCapacity - 1))

(***************************************************************************)
(* C23: every thread follows the lifecycle created -> initial frame        *)
(* written -> ready -> first run enters kickoff_kernel_thread, and its     *)
(* entry is invoked exactly once: a kernel thread's kickoff_kernel_thread  *)
(* calls the entry at ring 0 and then scheduler.exit; a user thread's      *)
(* kickoff_kernel_thread never calls the entry itself but iretq's into     *)
(* kickoff_user_thread, which calls the entry and then the thread-exit     *)
(* system call; control never returns to the sentinel 0x00DEAD00.          *)
(***************************************************************************)
KernelLife == <<"created", "kickoff", "entry", "exit">>

UserLife == <<"created", "kickoff", "iretq", "entry", "exit">>

IsPrefix(a, b) == Len(a) <= Len(b) /\ a = SubSeq(b, 1, Len(a))

C23_ThreadLifecycle ==
    /\ \A t \in Threads :
          /\ t \notin threads => lifecycle[t] = <<>>
          /\ (t \in threads /\ thread_kind[t] = "kernel") =>
                lifecycle[t] # <<>> /\ IsPrefix(lifecycle[t], KernelLife)
          /\ (t \in threads /\ thread_kind[t] = "user") =>
                lifecycle[t] # <<>> /\ IsPrefix(lifecycle[t], UserLife)
    /\ cpu_pc = "kickoff_kernel_thread" =>
          /\ lifecycle[current] = <<"created">>
          /\ Load(mem, rsp) = DummyReturnAddress
    /\ cpu_pc = "entry" =>
          /\ thread_kind[running] = "kernel"
          /\ cpl = 0
          /\ lifecycle[running] = SubSeq(KernelLife, 1, 3)
    /\ cpu_pc = "scheduler_exit" =>
          /\ thread_kind[current] = "kernel"
          /\ lifecycle[current] = SubSeq(KernelLife, 1, 3)
    /\ cpu_pc = "kickoff_user_thread" =>
          /\ thread_kind[current] = "user"
          /\ cpl = 3
          /\ lifecycle[current] = SubSeq(UserLife, 1, 3)
    /\ cpu_pc = "sys_thread_exit" =>
          /\ thread_kind[current] = "user"
          /\ lifecycle[current] = SubSeq(UserLife, 1, 4)
    /\ cpu_pc # "fault"

\* A kernel thread and a user thread have both run their entries and one of
\* them has ended.
C23_Witness ==
    /\ cpu_pc = "exited"
    /\ \E t, u \in threads :
          /\ thread_kind[t] = "kernel"
          /\ thread_kind[u] = "user"
          /\ Len(lifecycle[t]) >= 3
          /\ lifecycle[u] = UserLife

(***************************************************************************)
(* C24: for each of the three map sources the scanner returns exactly one  *)
(* range per entry typed usable, in map order, and none for any other      *)
(* entry; each returned range is frame-aligned and contained in its source *)
(* entry (start = entry start rounded up, end = entry end rounded down).   *)
(***************************************************************************)
\* r is frame-aligned and is the byte range e with its start rounded up and
\* its end rounded down.
AlignedInside(e, r) ==
    /\ r.start % PAGE_SIZE = 0
    /\ r.end % PAGE_SIZE = 0
    /\ e.start <= r.start
    /\ r.start - e.start < PAGE_SIZE
    /\ r.end <= e.end
    /\ e.end - r.end < PAGE_SIZE

C24_OneRangePerUsableEntry ==
    boot_pc = "gdt" =>
        LET usable == SelectSeq(memory_map, AreaUsable)
        IN  /\ Len(memory_regions) = Len(usable)
            /\ \A i \in 1..Len(usable) : AlignedInside(AreaBytes(usable[i]), memory_regions[i])

\* A native map with an unusable entry followed by a usable one with
\* unaligned bounds: one range, smaller than the entry.
C24_Witness ==
    /\ boot_pc = "gdt"
    /\ map_source = "memory_map_tag"
    /\ Len(memory_map) = 2
    /\ ~AreaUsable(memory_map[1])
    /\ AreaUsable(memory_map[2])
    /\ Len(memory_regions) = 1
    /\ AreaBytes(memory_map[2]).start < memory_regions[1].start
    /\ memory_regions[1].end < AreaBytes(memory_map[2]).end

(***************************************************************************)
(* C25: in every boot run interrupts stay masked from the entry to start   *)
(* until the IDT has been set up and the APIC initialized:                 *)
(* interrupts::enable is never executed before setup_idt and init_apic     *)
(* have completed, no earlier boot step enables interrupts, and a boot     *)
(* that panics before that point never enables them.                       *)
(***************************************************************************)
\* The bring-up step `step` has been carried out.
Done(step) == \E i \in 1..Len(bring_up) : bring_up[i] = step

C25_InterruptsAfterIdtAndApic ==
    /\ \A i \in 1..Len(bring_up) :
          bring_up[i] = "interrupts" =>
              /\ \E j \in 1..(i - 1) : bring_up[j] = "idt"
              /\ \E j \in 1..(i - 1) : bring_up[j] = "apic"
    /\ (~Done("idt") \/ ~Done("apic")) => ~Done("interrupts")
    /\ boot_pc = "panic" => ~Done("interrupts")

\* interrupts::enable has just been executed.
C25_Witness ==
    /\ boot_pc = "efi_runtime"
    /\ bring_up[Len(bring_up)] = "interrupts"
    /\ Done("idt")
    /\ Done("apic")

(***************************************************************************)
(* C18: for every region list R and every empty reserved range (start =    *)
(* end, at any frame address, also strictly inside a member of R),         *)
(* cut_region(R, reserved) returns R itself: the same ranges in the same   *)
(* order.                                                                  *)
(***************************************************************************)
EmptyReserved == cut_reserved.start = cut_reserved.end

C18_CutEmptyIsIdentity ==
    (cut_pc = "done" /\ EmptyReserved) => cut_result = cut_regions

(***************************************************************************)
(* C1: for every list of pairwise-disjoint frame ranges and every reserved *)
(* range K, cut_region returns pairwise-disjoint ranges whose union, as a  *)
(* set of frames, is the union of the input minus the frames of K.         *)
(***************************************************************************)
C1_CutSubtractsReserved ==
    cut_pc = "done" =>
        /\ PairwiseDisjoint(cut_result)
        /\ UnionFrames(cut_result) = UnionFrames(cut_regions) \ FramesOf(cut_reserved)

\* A region that strictly contains a non-empty K was split in two.
C1_Witness ==
    /\ cut_pc = "done"
    /\ \E i \in 1..Len(cut_regions) :
          /\ cut_regions[i].start < cut_reserved.start
          /\ cut_reserved.start < cut_reserved.end
          /\ cut_reserved.end < cut_regions[i].end
    /\ Len(cut_result) = Len(cut_regions) + 1

(***************************************************************************)
(* Claims about the SYSCALL trampoline                                     *)
(***************************************************************************)
\* The id the caller had in rax when it executed SYSCALL is inside the table.
IdInTable == ~UnsignedGE(sys_entry.regs["rax"], WordOf(NUM_SYSCALLS)) /\ sys_entry.regs["rax"][1] >= 0

\* C2: for every value of rax at SYSCALL entry the bounds check diverts to
\* syscall_abort if and only if the id is >= NUM_SYSCALLS: the indexed call
\* through SYSCALL_TABLE is reached only with an id inside [0, NUM_SYSCALLS),
\* syscall_abort only with an id outside of it, and a rejected call has
\* panicked and is never at sysretq.
C2_BoundsCheck ==
    /\ cpu_pc = "syscall_abort" => ~IdInTable
    /\ cpu_pc = "syscall_disp" => IdInTable
    /\ handler_call.reached => (IdInTable /\ handler_call.id = sys_entry.regs["rax"])
    /\ syscall_number # <<>> => (cpu_pc = "panic" /\ ~IdInTable)

C3_TssRsp0IsStackTop ==
    running # 0 => tss_rsp0 = KernelStackTop(kernel_stack_base[running])

\* C4: the value kickoff_kernel_thread and Thread::switch write into
\* TSS.rsp0, kernel_stack_addr(), is the address of slot capacity-1 of the
\* thread's kernel stack (base + 8 * (capacity - 1)), the slot that holds the
\* sentinel of prepare_kernel_stack, and lies inside the buffer.
C4_KernelStackAddrIsTopSlot ==
    cpu_pc \in {"kickoff_dispatch", "thread_switch_cr3"} =>
        LET base == kernel_stack_base[current]
        IN  /\ tss_rsp0 = kernel_stack_addr(base)
            /\ tss_rsp0 = WordAdd(base, 8 * (StackCapacity - 1))
            /\ Load(mem, tss_rsp0) = DummyReturnAddress
            /\ InRange(tss_rsp0, base, WordAdd(base, 8 * StackCapacity))

(***************************************************************************)
(* C6: every time a kernel thread resumes from thread_switch, each         *)
(* general-purpose register and the stack pointer have the values they     *)
(* had when the thread entered the switch, and RFLAGS.IF is 1: at the ret  *)
(* of thread_switch rsp is the rsp of the entry, and back in the caller    *)
(* it is that rsp without the return address.                              *)
(***************************************************************************)
C6_SwitchRoundTrip ==
    /\ (cpu_pc = "thread_switch_ret" /\ switch_entry[running].valid) =>
           /\ regs = switch_entry[running].regs
           /\ rsp = switch_entry[running].rsp
           /\ InterruptFlag(rflags)
    /\ cpu_pc = "switch_return" =>
           /\ switch_entry[running].valid
           /\ thread_kind[running] = "kernel"
           /\ regs = switch_entry[running].regs
           /\ rsp = WordAdd(switch_entry[running].rsp, 8)
           /\ InterruptFlag(rflags)

\* Two kernel threads have yielded to each other, each with registers of
\* its own, and one of them is back from its switch.
C6_Witness ==
    /\ cpu_pc = "switch_return"
    /\ \A t \in {1, 2} : thread_kind[t] = "kernel" /\ switch_entry[t].valid
    /\ switch_entry[1].regs["rbx"] # switch_entry[2].regs["rbx"]
    /\ regs["rbx"] # WordOf(0)
    /\ regs["rsi"] # regs["rdi"]

(***************************************************************************)
(* Claims about the first run of a thread                                  *)
(***************************************************************************)
\* C11: at the first transition of a user thread to user mode (the iretq of
\* thread_user_start), whether the thread was launched by start_first or by
\* Thread::switch, CR3 holds the page-table root of the thread's own address
\* space and TSS.rsp0 holds the address of the top slot of its kernel stack.
C11_FirstUserModeReturn ==
    cpu_pc = "thread_user_start" =>
        /\ cr3 = PageTableRoot(thread_kind, current)
        /\ tss_rsp0 = KernelStackTop(kernel_stack_base[current])

\* C12: Thread::start_first has written the thread's kernel stack top into
\* TSS.rsp0 before thread_kernel_start loads old_rsp0 into rsp, so TSS.rsp0
\* is set while the restore epilogue and the first instruction of the
\* launched thread run.  Either reading of "kernel stack top" is accepted:
\* the address of the top slot, or the value of kernel_stack_addr().
C12_StartFirstSetsTss ==
    cpu_pc \in {"thread_kernel_start", "thread_kernel_start_pop"} =>
        \/ tss_rsp0 = KernelStackTop(kernel_stack_base[current])
        \/ tss_rsp0 = kernel_stack_addr(kernel_stack_base[current])

\* A thread that was created and has neither run nor been switched away from.
Fresh(t) == t \in threads /\ t # running /\ ~switch_entry[t].valid

\* C13: old_rsp0 of a fresh thread is the address of the rbp slot, 17 slots
\* below the top slot capacity-1; the restore epilogue run from it (in
\* thread_kernel_start or in thread_switch) leaves every general-purpose
\* register 0 and RFLAGS = 0x202 and returns into kickoff_kernel_thread
\* with rsp at the sentinel slot holding 0x00DEAD00.
C13_FreshThreadLaunch ==
    /\ \A t \in Threads :
           Fresh(t) => Load(mem, OldRsp0Field(t))
                           = SlotAddr(kernel_stack_base[t], (StackCapacity - 1) - 17)
    /\ cpu_pc = "kickoff_kernel_thread" =>
           /\ \A r \in GeneralRegisters : regs[r] = WordOf(0)
           /\ rflags = WordOf(514)
           /\ rsp = SlotAddr(kernel_stack_base[running], StackCapacity - 1)
           /\ Load(mem, rsp) = WordOf(14593280)

\* Thread 2 enters kickoff_kernel_thread out of thread_switch, switched to by
\* thread 1, which had computed registers of its own.
C13_Witness ==
    /\ cpu_pc = "kickoff_kernel_thread"
    /\ running = 2
    /\ switch_entry[1].valid
    /\ switch_entry[1].regs["rbx"] # WordOf(0)
    /\ tss_rsp0 # WordOf(0)

(***************************************************************************)
(* Claims about the kernel stack of a thread                               *)
(***************************************************************************)
\* The kernel stack buffer of thread t holds address a.
InKernelStack(t, a) ==
    InRange(a, kernel_stack_base[t], SlotAddr(kernel_stack_base[t], StackCapacity))

\* C14: for every created thread, after creation and after every later
\* update of old_rsp0 (switch_to_user_mode, the save of thread_switch),
\* old_rsp0 points inside the thread's kernel stack buffer
\* [base, base + 8 * capacity) and slot capacity-1 holds 0x00DEAD00.
C14_OldRsp0InsideKernelStack ==
    \A t \in threads :
        /\ InKernelStack(t, Load(mem, OldRsp0Field(t)))
        /\ Load(mem, SlotAddr(kernel_stack_base[t], StackCapacity - 1)) = DummyReturnAddress

\* C15: whenever the trampoline is at the call through SYSCALL_TABLE, rsp
\* points into the kernel stack buffer of the current thread, not into the
\* user stack, and the first item pushed on that stack (the slot right
\* below TSS.rsp0) is the user rsp that was live after the pushes of the
\* prelude, which is what the epilogue will pop into rsp.
C15_TableCallOnKernelStack ==
    cpu_pc = "syscall_disp" =>
        /\ InKernelStack(running, rsp)
        /\ ~SignedGE(rsp, USER_STACK_ADDRESS)
        /\ Load(mem, WordAdd(tss_rsp0, -8))
               = WordAdd(sys_entry.rsp, -8 * Len(SyscallSaveOrder))
        /\ rsp = WordAdd(tss_rsp0, -16)

(***************************************************************************)
(* C16: during a syscall interrupts are masked for the whole prelude (from *)
(* SYSCALL entry until rsp is on the kernel stack) and for the whole       *)
(* epilogue (until sysretq), and enabled while the dispatched handler      *)
(* runs; the processor is never in ring 0 with interrupts enabled while    *)
(* rsp points at the user stack.                                           *)
(***************************************************************************)
C16_InterruptMasking ==
    /\ (cpl = 0 /\ SignedGE(rsp, USER_STACK_ADDRESS)) => ~InterruptFlag(rflags)
    /\ cpu_pc \in {"syscall_handler", "syscall_get_rsp0", "syscall_switch_stack", "sysretq"}
           => ~InterruptFlag(rflags)
    /\ cpu_pc \in {"sys_thread_switch", "sys_thread_sleep", "sys_thread_exit"}
           => InterruptFlag(rflags)

(***************************************************************************)
(* Claims about the bring-up order                                         *)
(***************************************************************************)
\* C17: in every boot run that reaches the scheduler the bring-up steps
\* have occurred in exactly this order: serial, terminal, ACPI, IDT, syscall
\* MSRs, APIC, timer, PS/2, and only then the enabling of interrupts.
C17_BringUpOrder ==
    boot_pc = "scheduler_started" =>
        bring_up = <<"serial", "terminal", "acpi", "idt", "syscall", "apic", "timer", "ps2",
                     "interrupts">>

(***************************************************************************)
(* C26: with two user threads whose syscalls interleave (A's handler       *)
(* yields through Thread::switch, B issues and completes its own syscall,  *)
(* later A resumes), each thread's handler runs on its own kernel stack,   *)
(* each thread's epilogue pops its own saved user rsp and restores its own *)
(* rcx/r11: no thread returns to user mode with another thread's saved     *)
(* user state, and no thread's saved user rsp is overwritten by the        *)
(* other's syscall.                                                        *)
(***************************************************************************)
\* The handler of the running thread's syscall runs inside that thread's
\* kernel stack buffer.
HandlerOnOwnKernelStack ==
    cpu_pc \in {"syscall_disp", "sys_thread_switch", "sys_thread_sleep", "sys_thread_exit"}
        => InKernelStack(running, rsp)

\* At sysretq the thread gets back the user state of its own SYSCALL.
ReturnsOwnUserState ==
    cpu_pc = "sysretq" =>
        /\ user_entry[running].active
        /\ rsp = user_entry[running].rsp
        /\ regs["rcx"] = user_entry[running].rip
        /\ regs["r11"] = user_entry[running].rflags

\* The slot the trampoline pushes the user rsp to (right below the rsp0 of
\* the thread) keeps that thread's user rsp while its syscall is under way.
SavedUserRspIntact ==
    \A t \in threads :
        (/\ user_entry[t].active
         /\ \/ t # running
            \/ cpu_pc \in {"syscall_check", "syscall_disp", "sys_thread_switch",
                            "sys_thread_sleep", "syscall_disp_ret", "syscall_after_disp"})
        => Load(mem, WordAdd(kernel_stack_addr(kernel_stack_base[t]), -8))
               = WordAdd(user_entry[t].rsp, -8 * Len(SyscallSaveOrder))

C26_InterleavedSyscalls ==
    /\ HandlerOnOwnKernelStack
    /\ ReturnsOwnUserState
    /\ SavedUserRspIntact

\* C27: the selectors agree with the GDT order null, kernel code, kernel
\* data, user data, user code, TSS. Star::write accepts the four selectors;
\* SYSCALL loads cs = index 1 and ss = index 2 at RPL 0; SYSRET loads
\* ss = base + 8 = index 3 and cs = base + 16 = index 4 at RPL 3; the iretq
\* frame of switch_to_user_mode holds the same two user selectors; ltr gets
\* index 5; and in every state the code segment in use is the code
\* descriptor of the current privilege level and the stack segment its data
\* descriptor.
C27_SelectorsMatchGdt ==
    /\ StarMsr.ok
    /\ SyscallLoads = [cs |-> WordOf(1 * 8), ss |-> WordOf(2 * 8)]
    /\ SyscallLoads = BootSegments
    /\ StarMsr.sysret_base = 2 * 8 + 3
    /\ SysretLoads = [cs |-> WordOf(4 * 8 + 3), ss |-> WordOf(3 * 8 + 3)]
    /\ UserModeFrame[5] = SysretLoads.cs
    /\ UserModeFrame[2] = SysretLoads.ss
    /\ GdtEntry(TssSelector) = "tss"
    /\ SelectorIndex(TssSelector) = 5
    /\ cpl = SelectorRpl(segments.cs)
    /\ cpl = SelectorRpl(segments.ss)
    /\ GdtEntry(segments.cs) = (IF cpl = 3 THEN "user_code" ELSE "kernel_code")
    /\ GdtEntry(segments.ss) = (IF cpl = 3 THEN "user_data" ELSE "kernel_data")

\* C27 witness: a thread that entered ring 3 through the iretq frame has
\* made a system call and is back in ring 3 through sysretq, with the
\* selectors the iretq frame gave it.
C27_Witness ==
    /\ cpu_pc = "user_code"
    /\ cpl = 3
    /\ user_entry[running] # NoUserEntry
    /\ ~user_entry[running].active
    /\ segments = [cs |-> UserModeFrame[5], ss |-> UserModeFrame[2]]
    /\ segments = SysretLoads
    /\ GdtEntry(segments.cs) = "user_code"
    /\ GdtEntry(segments.ss) = "user_data"

\* C28: Thread::switch called with the running thread as next is a no-op.
\* When the restore half is about to load rsp, the value it loads (rsi) is
\* the stack pointer the save half has just stored in old_rsp0, which is the
\* rsp it still runs on; the thread then arrives behind the call with the
\* registers, rflags and rsp it made the call with, and never anywhere else.
C28_SelfSwitchIsNoOp ==
    /\ (cpu_pc = "thread_switch_load" /\ current = running) =>
           /\ Load(mem, OldRsp0Field(running)) = rsp
           /\ regs["rsi"] = Load(mem, OldRsp0Field(running))
    /\ (cpu_pc = "thread_switch_ret" /\ switch_entry[running].valid) =>
           /\ rsp = switch_entry[running].rsp
           /\ LabelAt(Load(mem, rsp)) = "switch_return"
           /\ rflags = switch_entry[running].rflags
           /\ \A r \in GeneralRegisters : regs[r] = switch_entry[running].regs[r]

====
